---- MODULE Spec2Model ----
(***************************************************************************)
(* Review orchestration engine of code-reviewer: result cache, fallback    *)
(* router, batch runner, session store and rate tracker, modelled from the *)
(* TypeScript sources.  Each subsystem has its own specification           *)
(* (SpecCache, SpecRouter, ...) over the shared variables below; the       *)
(* variables of the other subsystems stay at their initial values.         *)
(***************************************************************************)
EXTENDS Integers, Sequences, FiniteSets, TLC

(***************************************************************************)
(* Bounds of the model.                                                    *)
(***************************************************************************)
MaxContent == 2
HashSpace == 2
MaxTime == 1

MaxChain == 3
MaxFiles == 4
MaxFailures == 1
MaxRecords == 6
MaxList == 3

VARIABLES
  now,        \* Date.now() of the process, in abstract ticks
  fs,         \* the project's files on disk: path -> [content, mtime]
  cache,      \* CacheManager.cache: Map<string, CacheEntry>
  cacheDisk,  \* .codereview-cache/review-cache.json
  lastCache,  \* the last CacheManager call: its arguments, the entry before it, its return value
  rChain,     \* the caller's fallback chain, as main filtered it (auto-fallback mode)
  rCfg,       \* MultiModelProvider.config
  rAvail,     \* MultiModelProvider: which clients exist (useClaudeCode || anthropic, gemini)
  rReq,       \* the ReviewRequest: its template and the code sample
  rFails,     \* the models whose provider call fails
  rPc,        \* where reviewCode is: idle, calling, returned, threw, exited
  rCur,       \* the model whose call is in flight
  rIdx,       \* index in config.fallbackModels of the call in flight (0: the first call)
  rCalls,     \* the models callModel was invoked with, in order
  rRet,       \* what reviewCode returned (the model that answered) or threw
  cmp,        \* compareModels: where it is, its promises, what it returned
  sDisk,      \* .codereview-sessions: session id -> the JSON record saved under it
  sCur,       \* ReviewSessionManager.currentSession
  sPrev,      \* the record the previous invocation of the process left on disk
  sLast,      \* the last ReviewSessionManager call: its arguments and what it found
  bMode,      \* which reviewer main constructed: claudeCode, apiKey, multiModel, autoFallback
  bConc,      \* reviewMultipleFiles' concurrency argument
  bArg,       \* the template argument of the command line
  bFiles,     \* filesToReview: relative paths in scan order
  bFinal,     \* finalFilesToReview
  bT,         \* index in getTemplates(bArg) of the template under review (0: none yet)
  bQueue,     \* uncachedFiles of the reviewMultipleFiles call in progress
  bI,         \* the wave loop's i
  bSt,        \* per file of bQueue: where its review call is, and its result
  bResults,   \* results of the reviewMultipleFiles call in progress
  bAll,       \* main's allResults
  bPc,        \* where the invocation is: idle, main, wave, pause, done, exited, crashed
  bFailed,    \* the (file, template) pairs whose review call failed in this invocation
  bCalled,    \* the (file, template) pairs a provider call was issued for in this invocation
  bProgress,  \* the onProgress calls of the current reviewMultipleFiles: their arguments, their number
  bSaves,     \* how often the current reviewMultipleFiles has written review-cache.json
  bPrev,      \* the results the previous invocation returned, when it ended normally
  clock,      \* Date.now() in milliseconds, for the rate windows
  requestTimes,     \* TokenTracker.requestTimes
  tokenUsageMinute, \* TokenTracker.tokenUsageMinute
  requestHistory,   \* ModelStatusChecker.requestHistory: model -> timestamps
  tokenHistory,     \* ModelStatusChecker.tokenHistory: model -> [timestamp, tokens]
  tLast       \* the last rate check: which one, its estimate and its answer

cacheVars == <<fs, cache, cacheDisk, lastCache>>

routerVars == <<rChain, rCfg, rAvail, rReq, rFails, rPc, rCur, rIdx, rCalls, rRet, cmp>>

sessionVars == <<sDisk, sCur, sPrev, sLast>>

batchVars == <<bMode, bConc, bArg, bFiles, bFinal, bT, bQueue, bI, bSt, bResults, bAll,
               bPc, bFailed, bCalled, bPrev, bProgress, bSaves>>

rateVars == <<clock, requestTimes, tokenUsageMinute, requestHistory, tokenHistory, tLast>>

vars == <<now, cacheVars, routerVars, sessionVars, batchVars, rateVars>>

nonCacheVars == <<routerVars, sessionVars, batchVars, rateVars>>
nonRouterVars == <<now, cacheVars, sessionVars, batchVars, rateVars>>
nonSessionVars == <<cacheVars, routerVars, batchVars, rateVars>>

(***************************************************************************)
(* Files and templates.                                                    *)
(***************************************************************************)
FileSeq == <<"a.ts", "b.ts", "c.ts", "d.ts", "e.ts">>
Paths == {FileSeq[i] : i \in DOMAIN FileSeq}

\* hasAnyCache's list of template names
Templates == {"quality", "security", "performance", "typescript", "combined"}

\* The file and the templates the cache specification exercises.
CachePaths == {"a.ts"}
CacheTemplates == {"quality", "security"}

Contents == 0..MaxContent
Times == 0..MaxTime

\* FileScanner.processFile: the FileInfo record of a file as scanned now.
\* It has no absolutePath field.
FileInfo(fsys, p) ==
  [path |-> p, relativePath |-> p, size |-> fsys[p].content,
   extension |-> ".ts", content |-> fsys[p].content]

\* sha256(content).digest('hex').slice(0, 16): a digest cut to a fixed
\* length, so distinct contents can share a hash.
generateFileHash(content) == content % HashSpace

\* `${filePath}:${template}`; no template name holds a colon, so the pair
\* determines the key and the key the pair.
getCacheKey(filePath, template) == <<filePath, template>>

\* fs.statSync(path).mtime.getTime().  The argument is a property read of a
\* FileInfo: a missing property reads as undefined, and statSync(undefined)
\* throws a TypeError.
statSync(fsys, file, field) ==
  IF field \notin DOMAIN file
    THEN [threw |-> TRUE, mtime |-> 0]
    ELSE [threw |-> FALSE, mtime |-> fsys[file[field]].mtime]

\* A timestamp is a Date object in memory and an ISO string in a JSON record.
DateOf(t) == [type |-> "Date", ms |-> t]

\* Date.prototype.toISOString, as JSON.stringify applies it
toISOString(d) == [type |-> "string", ms |-> d.ms]

\* new Date(x) of a Date or of an ISO string
NewDate(x) == [type |-> "Date", ms |-> x.ms]

\* A ReviewResult.
ReviewResult(filePath, template, t, hasIssues) ==
  [filePath |-> filePath, template |-> template, feedback |-> "review",
   timestamp |-> DateOf(t), hasIssues |-> hasIssues]

NullResult ==
  [filePath |-> "", template |-> "", feedback |-> "", timestamp |-> DateOf(0),
   hasIssues |-> FALSE]

HasEntry(c, key) == key \in DOMAIN c

MapDelete(c, key) == [k \in (DOMAIN c) \ {key} |-> c[k]]

MapSet(c, key, v) == [k \in (DOMAIN c) \cup {key} |-> IF k = key THEN v ELSE c[k]]

EmptyMap == [k \in {} |-> 0]

\* isCached without the eviction of an entry whose hash is stale.
isCached_KeepsStaleHash(c, fsys, file, template) ==
  LET key == getCacheKey(file.relativePath, template)
  IN  IF ~HasEntry(c, key)
        THEN [ret |-> FALSE, cache |-> c]
      ELSE IF c[key].fileHash # generateFileHash(file.content)
        THEN [ret |-> FALSE, cache |-> c]
      ELSE LET stats == statSync(fsys, file, "absolutePath")
           IN  IF stats.threw \/ stats.mtime # c[key].lastModified
                 THEN [ret |-> FALSE, cache |-> MapDelete(c, key)]
                 ELSE [ret |-> TRUE, cache |-> c]

\* CacheManager.isCached: [ret, cache], the answer and the cache after it
\* (a stale entry is deleted).
isCached(c, fsys, file, template) ==
  LET key == getCacheKey(file.relativePath, template)
  IN  IF ~HasEntry(c, key)
        THEN [ret |-> FALSE, cache |-> c]
      ELSE IF c[key].fileHash # generateFileHash(file.content)
        THEN [ret |-> FALSE, cache |-> MapDelete(c, key)]
      ELSE LET stats == statSync(fsys, file, "absolutePath")
           IN  IF stats.threw
                 THEN [ret |-> FALSE, cache |-> MapDelete(c, key)]
               ELSE IF stats.mtime # c[key].lastModified
                 THEN [ret |-> FALSE, cache |-> MapDelete(c, key)]
               ELSE [ret |-> TRUE, cache |-> c]

\* CacheManager.getCached: [hit, result, cache].
getCached(c, fsys, file, template) ==
  LET key == getCacheKey(file.relativePath, template)
      chk == isCached(c, fsys, file, template)
  IN  IF HasEntry(c, key) /\ chk.ret
        THEN [hit |-> TRUE, result |-> c[key].result, cache |-> chk.cache]
        ELSE [hit |-> FALSE, result |-> NullResult,
              cache |-> IF HasEntry(c, key) THEN chk.cache ELSE c]

\* A cacheResult that leaves the Map as it is.
cacheResult_NotStored(c, fsys, t, file, template, result) == c

\* CacheManager.cacheResult: the cache after storing result for (file, template).
cacheResult(c, fsys, t, file, template, result) ==
  LET stats == statSync(fsys, file, "absolutePath")
  IN  MapSet(c, getCacheKey(file.relativePath, template),
             [fileHash |-> generateFileHash(file.content),
              filePath |-> file.relativePath,
              template |-> template,
              result |-> [result EXCEPT !.timestamp = NewDate(@)],
              cachedAt |-> t,
              fileSize |-> file.size,
              lastModified |-> IF stats.threw THEN t ELSE stats.mtime])

(***************************************************************************)
(* SpecCache: a CacheManager and the files it caches.                      *)
(***************************************************************************)
NoCacheCall ==
  [op |-> "none", path |-> "", template |-> "", hadEntry |-> FALSE,
   hashMatch |-> FALSE, mtimeMatch |-> FALSE, hit |-> FALSE,
   result |-> NullResult, stored |-> NullResult]

InitFiles == [p \in Paths |-> [content |-> 0, mtime |-> 0]]

CacheIdle ==
  /\ fs = InitFiles
  /\ cache = EmptyMap
  /\ cacheDisk = EmptyMap
  /\ lastCache = NoCacheCall

\* compareModels has not been called.
NoCompare == [pc |-> "idle", st |-> <<>>, ret |-> <<>>]

RouterIdle ==
  /\ rChain = <<>>
  /\ rCfg = [primaryModel |-> "", fallbackModels |-> <<>>, hasTemplateMappings |-> FALSE]
  /\ rAvail = [claude |-> FALSE, gemini |-> FALSE]
  /\ rReq = [template |-> "", code |-> [length |-> 0]]
  /\ rFails = {}
  /\ rPc = "idle"
  /\ rCur = ""
  /\ rIdx = 0
  /\ rCalls = <<>>
  /\ rRet = ""
  /\ cmp = NoCompare

NoSession ==
  [id |-> <<>>, template |-> "", targetPath |-> "", totalFiles |-> 0,
   completedFiles |-> 0, pendingFiles |-> <<>>, completedResults |-> <<>>]

NoSessionCall ==
  [op |-> "none", template |-> "", targetPath |-> "", resume |-> FALSE,
   found |-> FALSE, first |-> FALSE]

SessionIdle ==
  /\ sDisk = EmptyMap
  /\ sCur = NoSession
  /\ sPrev = NoSession
  /\ sLast = NoSessionCall

\* onProgress has not been called.
NoProgress == [calls |-> {}, n |-> 0]

BatchIdle ==
  /\ bMode = "" /\ bConc = 0 /\ bArg = "" /\ bFiles = <<>> /\ bFinal = <<>>
  /\ bT = 0 /\ bQueue = <<>> /\ bI = 0 /\ bSt = <<>>
  /\ bResults = <<>> /\ bAll = <<>> /\ bPc = "idle"
  /\ bFailed = {} /\ bCalled = {} /\ bPrev = {}
  /\ bProgress = NoProgress
  /\ bSaves = 0

NoRateCheck ==
  [op |-> "none", estimatedTokens |-> 0, allowed |-> TRUE, hasWait |-> FALSE,
   waitTime |-> 0, reason |-> ""]

RateIdle ==
  /\ clock = 0
  /\ requestTimes = <<>>
  /\ tokenUsageMinute = <<>>
  /\ requestHistory = EmptyMap
  /\ tokenHistory = EmptyMap
  /\ tLast = NoRateCheck

InitCache == now = 0 /\ CacheIdle /\ RouterIdle /\ SessionIdle /\ BatchIdle /\ RateIdle

\* The clock advances.
Tick ==
  /\ now < MaxTime
  /\ now' = now + 1
  /\ UNCHANGED <<cacheVars, routerVars, sessionVars, batchVars, rateVars>>

\* An editor writes new content; the modification time becomes now, or is
\* put back to what it was (a write within the same tick, or touch -r).
ModifyFile(p, content, keepMtime) ==
  /\ content # fs[p].content
  /\ fs' = [fs EXCEPT ![p] = [content |-> content,
                              mtime |-> IF keepMtime THEN @.mtime ELSE now]]
  /\ UNCHANGED <<now, cache, cacheDisk, lastCache, nonCacheVars>>

\* touch: the modification time changes, the content stays.
TouchFile(p) ==
  /\ fs[p].mtime # now
  /\ fs' = [fs EXCEPT ![p].mtime = now]
  /\ UNCHANGED <<now, cache, cacheDisk, lastCache, nonCacheVars>>

\* cacheManager.getCached(file, template) on the file as scanned now.
GetCachedCall(p, template) ==
  LET file == FileInfo(fs, p)
      key == getCacheKey(p, template)
      got == getCached(cache, fs, file, template)
  IN  /\ cache' = got.cache
      /\ lastCache' =
           [op |-> "getCached", path |-> p, template |-> template,
            hadEntry |-> HasEntry(cache, key),
            hashMatch |-> HasEntry(cache, key)
                          /\ cache[key].fileHash = generateFileHash(fs[p].content),
            mtimeMatch |-> HasEntry(cache, key)
                           /\ cache[key].lastModified = fs[p].mtime,
            hit |-> got.hit, result |-> got.result,
            stored |-> IF HasEntry(cache, key) THEN cache[key].result ELSE NullResult]
      /\ UNCHANGED <<now, fs, cacheDisk, nonCacheVars>>

\* cacheManager.cacheResult(file, template, result) for a review finished now.
CacheResultCall(p, template, hasIssues) ==
  LET file == FileInfo(fs, p)
      result == ReviewResult(p, template, now, hasIssues)
  IN  /\ cache' = cacheResult(cache, fs, now, file, template, result)
      /\ lastCache' = [NoCacheCall EXCEPT !.op = "cacheResult", !.path = p,
                                          !.template = template, !.stored = result]
      /\ UNCHANGED <<now, fs, cacheDisk, nonCacheVars>>

NextCache ==
  \/ Tick
  \/ \E p \in CachePaths, c \in Contents, k \in BOOLEAN : ModifyFile(p, c, k)
  \/ \E p \in CachePaths : TouchFile(p)
  \/ \E p \in CachePaths, t \in CacheTemplates : GetCachedCall(p, t)
  \/ \E p \in CachePaths, t \in CacheTemplates, h \in BOOLEAN : CacheResultCall(p, t, h)

SpecCache == InitCache /\ [][NextCache]_vars

\* C2: getCached returns a stored result only if the entry's hash equals the
\* hash of the file's current content and the entry's modification time
\* equals the file's; when either differs, the entry is gone from the cache
\* after the call and the call is a miss.
C2_GetCachedOnlyValid ==
  lastCache.op = "getCached" =>
    /\ lastCache.hit =>
         /\ lastCache.hadEntry /\ lastCache.hashMatch /\ lastCache.mtimeMatch
         /\ lastCache.result = lastCache.stored
    /\ (lastCache.hadEntry /\ ~(lastCache.hashMatch /\ lastCache.mtimeMatch)) =>
         /\ ~lastCache.hit
         /\ ~HasEntry(cache, getCacheKey(lastCache.path, lastCache.template))

\* A lookup of an entry whose file content changed while its modification
\* time stayed: a miss, and the entry is deleted.
C2_Witness ==
  /\ lastCache.op = "getCached"
  /\ lastCache.hadEntry /\ ~lastCache.hashMatch /\ lastCache.mtimeMatch
  /\ ~lastCache.hit
  /\ ~HasEntry(cache, getCacheKey(lastCache.path, lastCache.template))

(***************************************************************************)
(* Token estimator.                                                        *)
(***************************************************************************)
ModelKeys == {"claude-sonnet", "claude-haiku", "gemini-pro", "gemini-flash"}

\* MODEL_LIMITS: the static input and output ceilings of each model.
MODEL_LIMITS ==
  [m \in ModelKeys |->
     CASE m = "claude-sonnet" ->
            [maxInputTokens |-> 200000, maxOutputTokens |-> 8192,
             rateLimit |-> [requestsPerMinute |-> 5, tokensPerMinute |-> 40000,
                            requestsPerDay |-> 1000]]
       [] m = "claude-haiku" ->
            [maxInputTokens |-> 200000, maxOutputTokens |-> 4096,
             rateLimit |-> [requestsPerMinute |-> 5, tokensPerMinute |-> 50000,
                            requestsPerDay |-> 1000]]
       [] m = "gemini-pro" ->
            [maxInputTokens |-> 2000000, maxOutputTokens |-> 8192,
             rateLimit |-> [requestsPerMinute |-> 2, tokensPerMinute |-> 32000,
                            requestsPerDay |-> 50]]
       [] m = "gemini-flash" ->
            [maxInputTokens |-> 1000000, maxOutputTokens |-> 8192,
             rateLimit |-> [requestsPerMinute |-> 15, tokensPerMinute |-> 1000000,
                            requestsPerDay |-> 1500]]]

CeilDiv(a, b) == (a + b - 1) \div b

Min(a, b) == IF a < b THEN a ELSE b

\* The code of a request, by what the estimator reads of it: its length in
\* characters, its lines and the counts of its regular-expression matches.
CodeSamples ==
  { [length |-> 400, lines |-> 10, functions |-> 1, imports |-> 1,
     complexPatterns |-> 2, cyclomatic |-> 2],
    [length |-> 6000, lines |-> 120, functions |-> 6, imports |-> 4,
     complexPatterns |-> 10, cyclomatic |-> 8],
    [length |-> 48000, lines |-> 1200, functions |-> 60, imports |-> 20,
     complexPatterns |-> 150, cyclomatic |-> 120],
    [length |-> 900000, lines |-> 20000, functions |-> 900, imports |-> 40,
     complexPatterns |-> 2000, cyclomatic |-> 1500] }

\* Length in characters of the system prompt and of the file name.
PromptLength == 2000
FilenameLength == 4

\* templateMultipliers, in tenths.
templateMultiplier10(template) ==
  CASE template = "quality" -> 15
    [] template = "security" -> 20
    [] template = "performance" -> 13
    [] template = "typescript" -> 12
    [] template = "combined" -> 25
    [] OTHER -> 10

\* TokenEstimator.estimateOutputTokens
estimateOutputTokens(code, template) ==
  LET complexityScore == code.lines * 2 + code.functions * 50
                         + code.imports * 10 + code.complexPatterns * 15
  IN  Min(200 + CeilDiv(complexityScore * templateMultiplier10(template), 10), 4000)

\* TokenEstimator.assessComplexity
assessComplexity(code, totalTokens) ==
  IF totalTokens > 3000 \/ code.lines > 200 \/ code.cyclomatic > 20 THEN "high"
  ELSE IF totalTokens > 1000 \/ code.lines > 50 \/ code.cyclomatic > 5 THEN "medium"
  ELSE "low"

\* TokenEstimator.recommendModel
recommendModel(totalTokens, complexity, template) ==
  IF totalTokens < 1000 /\ complexity = "low" THEN "gemini-flash"
  ELSE IF template = "security" \/ complexity = "high" THEN "claude-sonnet"
  ELSE IF template = "typescript" \/ (totalTokens < 2000 /\ complexity = "medium")
    THEN "gemini-flash"
  ELSE IF totalTokens > 10000 THEN "gemini-pro"
  ELSE "gemini-flash"

\* TokenEstimator.estimateTokens
estimateTokens(code, promptLength, filenameLength, template) ==
  LET inputTokens == CeilDiv(code.length, 4) + CeilDiv(promptLength, 4)
                     + CeilDiv(filenameLength, 4) + 50
      outputTokens == estimateOutputTokens(code, template)
      totalTokens == inputTokens + outputTokens
      complexity == assessComplexity(code, totalTokens)
  IN  [inputTokens |-> inputTokens, outputTokens |-> outputTokens,
       totalTokens |-> totalTokens, complexity |-> complexity,
       recommendedModel |-> recommendModel(totalTokens, complexity, template)]

\* TokenEstimator.fitsWithinLimits(estimate, modelKey).fits
fitsWithinLimits(estimate, modelKey) ==
  /\ modelKey \in DOMAIN MODEL_LIMITS
  /\ estimate.inputTokens <= MODEL_LIMITS[modelKey].maxInputTokens
  /\ estimate.outputTokens <= MODEL_LIMITS[modelKey].maxOutputTokens

(***************************************************************************)
(* Fallback router: MultiModelProvider.                                    *)
(***************************************************************************)
SeqToSet(q) == {q[i] : i \in DOMAIN q}

Contains(q, x) == \E i \in DOMAIN q : q[i] = x

RECURSIVE FilterSeq(_, _)
\* Array.prototype.filter with the predicate "is in keep".
FilterSeq(q, keep) ==
  IF q = <<>> THEN <<>>
  ELSE IF Head(q) \in keep THEN <<Head(q)>> \o FilterSeq(Tail(q), keep)
  ELSE FilterSeq(Tail(q), keep)

IsClaude(m) == m \in {"claude-sonnet", "claude-haiku"}
IsGemini(m) == m \in {"gemini-pro", "gemini-flash"}

\* main: the fallback chain filtered to the models there is authentication for.
\* creds: which credentials exist (claudeCode, apiKey, geminiKey).
FilterChain(chain, creds) ==
  LET needsClaude == \E i \in DOMAIN chain : IsClaude(chain[i])
      needsGemini == \E i \in DOMAIN chain : IsGemini(chain[i])
      claudeAvailable == needsClaude /\ (creds.claudeCode \/ creds.apiKey)
      geminiAvailable == needsGemini /\ creds.geminiKey
  IN  FilterSeq(chain, {m \in ModelKeys : \/ IsClaude(m) /\ claudeAvailable
                                          \/ IsGemini(m) /\ geminiAvailable})

\* main: fallbackConfig, the ModelConfig of auto-fallback mode.  It sets no
\* templateMappings.
fallbackConfig(chain) ==
  [primaryModel |-> Head(chain), fallbackModels |-> Tail(chain),
   hasTemplateMappings |-> FALSE]

\* DEFAULT_CONFIG.multiModel, the ModelConfig of multi-model mode.
multiModelConfig ==
  [primaryModel |-> "claude-sonnet",
   fallbackModels |-> <<"claude-haiku", "gemini-flash", "gemini-pro">>,
   hasTemplateMappings |-> TRUE]

\* DEFAULT_CONFIG.multiModel.templateMappings
templateMappings(template) ==
  CASE template \in {"security", "combined"} -> "claude-sonnet"
    [] template \in {"quality", "performance", "typescript"} -> "gemini-flash"
    [] OTHER -> ""

\* getOptimalModel's smartMappings
smartMappings(template) ==
  CASE template \in {"security", "combined"} -> "claude-sonnet"
    [] template \in {"quality", "performance"} -> "gemini-pro"
    [] template = "typescript" -> "gemini-flash"
    [] OTHER -> ""

\* MultiModelProvider.getAvailableModels
getAvailableModels(avail) ==
  (IF avail.claude THEN <<"claude-sonnet", "claude-haiku">> ELSE <<>>)
  \o (IF avail.gemini THEN <<"gemini-pro", "gemini-flash">> ELSE <<>>)

\* MultiModelProvider.getOptimalModel: [threw, model].  Reading
\* config.templateMappings[template] of a config without templateMappings
\* throws a TypeError.
getOptimalModel(cfg, avail, template) ==
  LET availableModels == getAvailableModels(avail)
  IN  IF ~cfg.hasTemplateMappings
        THEN [threw |-> "TypeError", model |-> ""]
      ELSE IF templateMappings(template) # ""
              /\ Contains(availableModels, templateMappings(template))
        THEN [threw |-> "", model |-> templateMappings(template)]
      ELSE IF smartMappings(template) # ""
              /\ Contains(availableModels, smartMappings(template))
        THEN [threw |-> "", model |-> smartMappings(template)]
      ELSE IF Contains(availableModels, cfg.primaryModel)
        THEN [threw |-> "", model |-> cfg.primaryModel]
      ELSE IF Len(availableModels) > 0
        THEN [threw |-> "", model |-> availableModels[1]]
      ELSE [threw |-> "No models available", model |-> ""]

\* The first element of q that fits the estimate, or "".
RECURSIVE FirstFitting(_, _)
FirstFitting(q, estimate) ==
  IF q = <<>> THEN ""
  ELSE IF fitsWithinLimits(estimate, Head(q)) THEN Head(q)
  ELSE FirstFitting(Tail(q), estimate)

\* MultiModelProvider.getOptimalModelWithTokens: [threw, model]
getOptimalModelWithTokens(cfg, avail, template, estimate) ==
  LET availableModels == getAvailableModels(avail)
      templateChoice == getOptimalModel(cfg, avail, template)
  IN  IF /\ Contains(availableModels, estimate.recommendedModel)
         /\ fitsWithinLimits(estimate, estimate.recommendedModel)
        THEN [threw |-> "", model |-> estimate.recommendedModel]
      ELSE IF templateChoice.threw # ""
        THEN templateChoice
      ELSE IF fitsWithinLimits(estimate, templateChoice.model)
        THEN templateChoice
      ELSE IF FirstFitting(availableModels, estimate) # ""
        THEN [threw |-> "", model |-> FirstFitting(availableModels, estimate)]
      ELSE [threw |-> "",
            model |-> IF Len(availableModels) > 0 THEN availableModels[1]
                      ELSE cfg.primaryModel]

\* The index of the next model the fallback loop of reviewCode calls, looking
\* from index i on: a fallback model other than the optimal one, available
\* and fitting the estimate.  0 when the loop ends without one.
RECURSIVE NextFallback(_, _, _, _, _)
NextFallback(cfg, avail, optimalModel, estimate, i) ==
  IF i > Len(cfg.fallbackModels) THEN 0
  ELSE IF /\ cfg.fallbackModels[i] # optimalModel
          /\ Contains(getAvailableModels(avail), cfg.fallbackModels[i])
          /\ fitsWithinLimits(estimate, cfg.fallbackModels[i])
    THEN i
  ELSE NextFallback(cfg, avail, optimalModel, estimate, i + 1)

\* callModel / callClaude / callGemini: whether the call of a model fails.
\* It fails without a request when the provider of the model has no client,
\* and otherwise when the provider fails.
callFails(avail, fails, m) ==
  \/ m \notin ModelKeys
  \/ IsClaude(m) /\ ~avail.claude
  \/ IsGemini(m) /\ ~avail.gemini
  \/ m \in fails

RequestEstimate(req) == estimateTokens(req.code, PromptLength, FilenameLength, req.template)

\* reviewCode up to its first callModel: the estimate, the choice of the
\* optimal model and the call of it.
ReviewCodeBegin ==
  /\ rPc = "idle"
  /\ LET estimate == RequestEstimate(rReq)
         optimal == getOptimalModelWithTokens(rCfg, rAvail, rReq.template, estimate)
     IN  IF optimal.threw # ""
           THEN /\ rPc' = "threw"
                /\ rRet' = optimal.threw
                /\ UNCHANGED <<rCur, rIdx, rCalls>>
           ELSE /\ rPc' = "calling"
                /\ rCur' = optimal.model
                /\ rIdx' = 0
                /\ rCalls' = Append(rCalls, optimal.model)
                /\ rRet' = rRet
  /\ UNCHANGED <<rChain, rCfg, rAvail, rReq, rFails, cmp, nonRouterVars>>

\* The call in flight succeeds: reviewCode returns its response.
CallResolves ==
  /\ rPc = "calling"
  /\ ~callFails(rAvail, rFails, rCur)
  /\ rPc' = "returned"
  /\ rRet' = rCur
  /\ UNCHANGED <<rChain, rCfg, rAvail, rReq, rFails, rCur, rIdx, rCalls, cmp, nonRouterVars>>

\* The call in flight fails: the catch block calls the next fallback model,
\* or throws when the loop over config.fallbackModels ends.
CallRejects ==
  /\ rPc = "calling"
  /\ callFails(rAvail, rFails, rCur)
  /\ LET optimalModel == rCalls[1]
         nxt == NextFallback(rCfg, rAvail, optimalModel, RequestEstimate(rReq), rIdx + 1)
     IN  IF nxt = 0
           THEN /\ rPc' = "threw"
                /\ rRet' = "All suitable models failed"
                /\ UNCHANGED <<rCur, rIdx, rCalls>>
           ELSE /\ rPc' = "calling"
                /\ rCur' = rCfg.fallbackModels[nxt]
                /\ rIdx' = nxt
                /\ rCalls' = Append(rCalls, rCfg.fallbackModels[nxt])
                /\ rRet' = rRet
  /\ UNCHANGED <<rChain, rCfg, rAvail, rReq, rFails, cmp, nonRouterVars>>

\* Sequences of distinct model keys of length 1..n.
DistinctChains(n) ==
  UNION { {q \in [1..k -> ModelKeys] : \A i, j \in 1..k : q[i] = q[j] => i = j}
          : k \in 1..n }

RouterTemplates == {"quality", "security", "typescript"}

Credentials == [claudeCode : BOOLEAN, apiKey : BOOLEAN, geminiKey : BOOLEAN]

\* main in auto-fallback mode: the provider it constructs for a priority
\* chain and the credentials found; it exits when no model of the chain is
\* authenticated.
InitRouter ==
  /\ now = 0
  /\ CacheIdle
  /\ SessionIdle
  /\ BatchIdle
  /\ RateIdle
  /\ \E chain \in DistinctChains(MaxChain), creds \in Credentials :
       LET filtered == FilterChain(chain, creds)
           needsClaude == \E i \in DOMAIN chain : IsClaude(chain[i])
           useClaudeCode == needsClaude /\ creds.claudeCode
       IN  /\ rChain = filtered
           /\ rAvail = [claude |-> useClaudeCode \/ creds.apiKey,
                        gemini |-> creds.geminiKey]
           /\ IF filtered = <<>>
                THEN /\ rPc = "exited"
                     /\ rCfg = [primaryModel |-> "", fallbackModels |-> <<>>,
                                hasTemplateMappings |-> FALSE]
                ELSE /\ rPc = "idle"
                     /\ rCfg = fallbackConfig(filtered)
  /\ rReq \in [template : RouterTemplates, code : CodeSamples]
  /\ rFails \in SUBSET ModelKeys
  /\ rCur = ""
  /\ rIdx = 0
  /\ rCalls = <<>>
  /\ rRet = ""
  /\ cmp = NoCompare

NextRouter ==
  \/ ReviewCodeBegin
  \/ CallResolves
  \/ CallRejects

SpecRouter == InitRouter /\ [][NextRouter]_vars

ChainFits == \A i \in DOMAIN rChain : fitsWithinLimits(RequestEstimate(rReq), rChain[i])

ReviewCodeDone == rPc \in {"returned", "threw"}

\* C3: with a chain [A, B, C] of authenticated models that all fit, the calls
\* of A and B failing and the call of C succeeding, reviewCode returns C's
\* response after calling exactly A, then B, then C.
C3_FallbackOrder ==
  (/\ ReviewCodeDone
   /\ Len(rChain) = 3 /\ ChainFits
   /\ rChain[1] \in rFails /\ rChain[2] \in rFails /\ rChain[3] \notin rFails)
  => (rPc = "returned" /\ rRet = rChain[3] /\ rCalls = rChain)

\* C4: when the call of every model of the chain fails, reviewCode throws
\* its terminal error after exactly Len(chain) calls: every chain member
\* once, no model outside the chain.
C4_ExhaustionAfterChainLength ==
  (/\ ReviewCodeDone
   /\ ChainFits
   /\ SeqToSet(rChain) \subseteq rFails)
  => /\ rPc = "threw" /\ rRet = "All suitable models failed"
     /\ Len(rCalls) = Len(rChain)
     /\ SeqToSet(rCalls) = SeqToSet(rChain)

(***************************************************************************)
(* Session store: ReviewSessionManager.                                    *)
(***************************************************************************)
SessionTargets == {"./src", "lib"}
SessionTemplates == {"quality"}

\* The file list a scan of the target hands to startSession.
ScannedFiles == <<FileInfo(InitFiles, "a.ts"), FileInfo(InitFiles, "b.ts")>>

\* The results markFilesCompleted is handed in this specification: of files
\* that are still pending, in scan order.
SessionPaths == {"a.ts", "b.ts"}

\* targetPath.replace(/[^a-zA-Z0-9]/g, '_').slice(0, 20)
pathHash(targetPath) ==
  CASE targetPath = "./src" -> "__src"
    [] targetPath = "lib" -> "lib"
    [] OTHER -> targetPath

\* generateSessionId: `${template}_${pathHash}_${Date.now().toString(36)}`
generateSessionId(targetPath, template, t) == <<template, pathHash(targetPath), t>>

\* JSON.stringify of a session: every Date becomes an ISO string.
SessionToJson(session) ==
  [session EXCEPT !.completedResults =
     [i \in DOMAIN @ |-> [@[i] EXCEPT !.timestamp = toISOString(@)]]]

\* A saveSession that writes nothing.
saveSession_NoWrite(disk, session) == disk

\* saveSession: the session directory after writing the session's record.
saveSession(disk, session) == MapSet(disk, session.id, SessionToJson(session))

\* loadSession: [found, session]; JSON.parse of the record, as it is.
loadSession(disk, sessionId) ==
  IF sessionId \in DOMAIN disk
    THEN [found |-> TRUE, session |-> disk[sessionId]]
    ELSE [found |-> FALSE, session |-> NoSession]

\* A filter that empties the pending list.
FilterPending_DropsAll(q, paths) == <<>>

\* A filter that leaves the pending list as it is.
FilterPending_KeepsCompleted(q, paths) == q

\* The elements of q whose relativePath is not in paths, in order.
RECURSIVE FilterPending(_, _)
FilterPending(q, paths) ==
  IF q = <<>> THEN <<>>
  ELSE IF Head(q).relativePath \in paths THEN FilterPending(Tail(q), paths)
  ELSE <<Head(q)>> \o FilterPending(Tail(q), paths)

\* markFilesCompleted: the current session after it.
markFilesCompleted(session, results) ==
  [session EXCEPT
     !.completedResults = @ \o results,
     !.completedFiles = Len(session.completedResults \o results),
     !.pendingFiles = FilterPending(@, {results[i].filePath : i \in DOMAIN results})]

\* startSession: [session, disk, found], the current session, the session
\* directory after it, and whether a persisted session was resumed.
startSession(disk, t, files, template, targetPath, resume) ==
  LET sessionId == generateSessionId(targetPath, template, t)
      existing == loadSession(disk, sessionId)
      session == [id |-> sessionId, template |-> template,
                  targetPath |-> targetPath, totalFiles |-> Len(files),
                  completedFiles |-> 0, pendingFiles |-> files,
                  completedResults |-> <<>>]
  IN  IF resume /\ existing.found
        THEN [session |-> existing.session, disk |-> disk, found |-> TRUE]
        ELSE [session |-> session, disk |-> saveSession(disk, session),
              found |-> FALSE]

\* startSession(files, template, targetPath, {resume})
StartSession(files, template, targetPath, resume) ==
  /\ sCur = NoSession
  /\ LET started == startSession(sDisk, now, files, template, targetPath, resume)
     IN  /\ sLast' = [op |-> "startSession", template |-> template,
                      targetPath |-> targetPath, resume |-> resume,
                      found |-> started.found,
                      first |-> sLast.op = "restart"]
         /\ sCur' = started.session
         /\ sDisk' = started.disk
  /\ UNCHANGED <<now, sPrev, nonSessionVars>>

\* markFilesCompleted(results), with the results of the files in paths
MarkFilesCompleted(paths) ==
  /\ sCur # NoSession
  /\ paths \subseteq {sCur.pendingFiles[i].relativePath : i \in DOMAIN sCur.pendingFiles}
  /\ LET results == FilterSeq(<<"a.ts", "b.ts">>, paths)
         session == markFilesCompleted(sCur,
                      [i \in DOMAIN results |->
                         ReviewResult(results[i], sCur.template, now, TRUE)])
     IN  /\ sCur' = session
         /\ sDisk' = saveSession(sDisk, session)
  /\ sLast' = [NoSessionCall EXCEPT !.op = "markFilesCompleted"]
  /\ UNCHANGED <<now, sPrev, nonSessionVars>>

\* completeSession(): the record of the current session is deleted.
CompleteSession ==
  /\ sCur # NoSession
  /\ sDisk' = MapDelete(sDisk, sCur.id)
  /\ sCur' = NoSession
  /\ sLast' = [NoSessionCall EXCEPT !.op = "completeSession"]
  /\ UNCHANGED <<now, sPrev, nonSessionVars>>

\* The process ends (exit, interrupt or crash) and a later invocation starts
\* with a new ReviewSessionManager; the session directory stays and the
\* clock has moved on.
Restart ==
  /\ sLast.op \in {"startSession", "markFilesCompleted"}
  /\ now < MaxTime
  /\ now' = now + 1
  /\ sPrev' = IF sCur.id \in DOMAIN sDisk THEN sDisk[sCur.id] ELSE NoSession
  /\ sCur' = NoSession
  /\ sLast' = [NoSessionCall EXCEPT !.op = "restart"]
  /\ UNCHANGED <<sDisk, nonSessionVars>>

InitSession == now = 0 /\ CacheIdle /\ RouterIdle /\ SessionIdle /\ BatchIdle /\ RateIdle

NextSession ==
  \/ Tick
  \/ \E t \in SessionTemplates, tp \in SessionTargets, r \in BOOLEAN :
       StartSession(ScannedFiles, t, tp, r)
  \/ \E ps \in (SUBSET SessionPaths) \ {{}} : MarkFilesCompleted(ps)
  \/ CompleteSession
  \/ Restart

SpecSession == InitSession /\ [][NextSession]_vars

\* C5: a session started for (targetPath, template) with half of its files
\* marked completed is what startSession with resume = true for the same
\* targetPath and template yields in a later invocation: the remaining files
\* are the other half and the completed results those of the first half.
C5_ResumeYieldsPersisted ==
  (/\ sLast.op = "startSession" /\ sLast.resume /\ sLast.first
   /\ sPrev # NoSession
   /\ sPrev.targetPath = sLast.targetPath /\ sPrev.template = sLast.template
   /\ sPrev.totalFiles = 2 /\ Len(sPrev.pendingFiles) = 1
   /\ Len(sPrev.completedResults) = 1)
  => (/\ sCur.pendingFiles = sPrev.pendingFiles
      /\ sCur.completedResults = sPrev.completedResults)

(***************************************************************************)
(* Batch runner: CodeReviewer.reviewMultipleFiles,                         *)
(* MultiModelReviewer.reviewMultipleFiles and the review loop of main.     *)
(***************************************************************************)
\* The concurrency main passes to reviewMultipleFiles.
Concurrency == 3

BatchModes == {"claudeCode", "apiKey", "multiModel", "autoFallback"}
CodeReviewerModes == {"claudeCode", "apiKey"}
BatchArgs == {"quality", "all"}
BatchTarget == "./src"
BatchAvail == [claude |-> TRUE, gemini |-> TRUE]

getTemplates(templateName) ==
  CASE templateName = "all" -> <<"quality", "security", "performance", "typescript">>
    [] OTHER -> <<templateName>>

\* The ModelConfig main hands to MultiModelReviewer.
reviewerConfig(mode) ==
  IF mode = "autoFallback"
    THEN fallbackConfig(<<"claude-sonnet", "claude-haiku", "gemini-flash", "gemini-pro">>)
    ELSE multiModelConfig

\* saveCache: the JSON written to review-cache.json
saveCache(c) == [k \in DOMAIN c |-> [c[k] EXCEPT !.result.timestamp = toISOString(@)]]

\* JSON null.
JsonNull == [json |-> "null"]

\* new Date(undefined): an Invalid Date.
InvalidDate == [type |-> "InvalidDate", ms |-> 0]

\* Whether the forEach callback of loadCache throws on an entry: reading
\* entry.result of null, or entry.result.timestamp of a missing or null result.
EntryThrows(entry) ==
  \/ entry = JsonNull
  \/ "result" \notin DOMAIN entry
  \/ entry.result = JsonNull

\* A callback that sets the parsed entry as it is, its timestamp a string.
LoadEntry_Unconverted(entry) == entry

\* The CacheEntry the callback sets for an entry it does not throw on:
\* {...entry, result: {...entry.result, timestamp: new Date(entry.result.timestamp)}}
LoadEntry(entry) ==
  [entry EXCEPT !.result =
     [f \in (DOMAIN entry.result) \cup {"timestamp"} |->
        IF f # "timestamp" THEN entry.result[f]
        ELSE IF "timestamp" \in DOMAIN entry.result
          THEN NewDate(entry.result.timestamp)
          ELSE InvalidDate]]

\* loadCache on the parsed object of review-cache.json: the Map it builds;
\* when the callback throws, the catch clears the Map.
loadCache(disk) ==
  IF \E k \in DOMAIN disk : EntryThrows(disk[k])
    THEN EmptyMap
    ELSE [k \in DOMAIN disk |-> LoadEntry(disk[k])]

RECURSIVE separateFiles_DropsEvicted(_, _, _, _)
separateFiles_DropsEvicted(c, fsys, files, template) ==
  IF files = <<>>
    THEN [cachedFiles |-> <<>>, uncachedFiles |-> <<>>, cache |-> c]
    ELSE LET got == getCached(c, fsys, Head(files), template)
             evicted == HasEntry(c, getCacheKey(Head(files).relativePath, template))
                        /\ ~got.hit
             rest == separateFiles_DropsEvicted(got.cache, fsys, Tail(files), template)
         IN  [cachedFiles |-> (IF got.hit
                                 THEN <<[file |-> Head(files), result |-> got.result]>>
                                 ELSE <<>>) \o rest.cachedFiles,
              uncachedFiles |-> (IF got.hit \/ evicted THEN <<>> ELSE <<Head(files)>>)
                                 \o rest.uncachedFiles,
              cache |-> rest.cache]

\* CacheManager.separateFiles: [cachedFiles, uncachedFiles, cache], where
\* cachedFiles holds {file, result} pairs.
RECURSIVE separateFiles(_, _, _, _)
separateFiles(c, fsys, files, template) ==
  IF files = <<>>
    THEN [cachedFiles |-> <<>>, uncachedFiles |-> <<>>, cache |-> c]
    ELSE LET got == getCached(c, fsys, Head(files), template)
             rest == separateFiles(got.cache, fsys, Tail(files), template)
         IN  [cachedFiles |-> (IF got.hit
                                 THEN <<[file |-> Head(files), result |-> got.result]>>
                                 ELSE <<>>) \o rest.cachedFiles,
              uncachedFiles |-> (IF got.hit THEN <<>> ELSE <<Head(files)>>)
                                 \o rest.uncachedFiles,
              cache |-> rest.cache]

batchSlice_ToTheEnd(i, concurrency, n) == [from |-> i + 1, to |-> n]

\* files.slice(i, i + concurrency): the positions (from 1) of the wave's files
batchSlice(i, concurrency, n) == [from |-> i + 1, to |-> Min(i + concurrency, n)]

Wave == LET b == batchSlice(bI, bConc, Len(bQueue)) IN b.from..b.to

NewSlot == [st |-> "new", result |-> NullResult]

\* batchResults.filter(r => r !== null) of the slots from..to
RECURSIVE batchResults(_, _, _)
batchResults(st, from, to) ==
  IF from > to THEN <<>>
  ELSE (IF st[from].st = "null" THEN <<>> ELSE <<st[from].result>>)
       \o batchResults(st, from + 1, to)

\* What the provider answers for a file, and detectIssues of it.
detectIssues(filePath) == filePath = "a.ts"

\* What MultiModelProvider.reviewCode throws when every model failed: an Error
\* without status, error or code.
reviewCodeError == "plain"

\* The catch of MultiModelReviewer.reviewFile: [exits, result]
reviewFileCatch(errorKind, filePath, template, t) ==
  IF errorKind \in {"status", "code"}
    THEN [exits |-> TRUE, result |-> NullResult]
    ELSE [exits |-> FALSE,
          result |-> [ReviewResult(filePath, template, t, FALSE)
                        EXCEPT !.feedback = "Review failed"]]

\* The arguments of one onProgress call: (current, total, result).
onProgress(current, total, filePath) ==
  [current |-> current, total |-> total, filePath |-> filePath]

\* main: startSession, finalFilesToReview, previousResults.
MainStart(resume) ==
  /\ bPc = "idle"
  /\ LET files == [i \in DOMAIN bFiles |-> FileInfo(fs, bFiles[i])]
         started == startSession(sDisk, now, files, bArg, BatchTarget, resume)
         final == IF resume THEN started.session.pendingFiles ELSE files
     IN  /\ sLast' = [op |-> "startSession", template |-> bArg,
                      targetPath |-> BatchTarget, resume |-> resume,
                      found |-> started.found, first |-> sLast.op = "restart"]
         /\ bFinal' = [i \in DOMAIN final |-> final[i].relativePath]
         /\ bAll' = started.session.completedResults
         /\ IF final = <<>>
              THEN /\ sDisk' = MapDelete(started.disk, started.session.id)
                   /\ sCur' = NoSession
                   /\ bPc' = "exited"
              ELSE /\ sDisk' = started.disk
                   /\ sCur' = started.session
                   /\ bPc' = "main"
  /\ UNCHANGED <<rateVars, now, sPrev, cacheVars, routerVars, bMode, bConc, bArg, bFiles,
                 bT, bQueue, bI, bSt, bResults, bFailed, bCalled, bPrev, bProgress,
                 bSaves>>

\* reviewMultipleFiles is called for the next template: up to the wave loop.
BeginReview ==
  /\ bPc = "main"
  /\ bT < Len(getTemplates(bArg))
  /\ LET template == getTemplates(bArg)[bT + 1]
         files == [i \in DOMAIN bFinal |-> FileInfo(fs, bFinal[i])]
         sep == IF bMode \in CodeReviewerModes
                  THEN separateFiles(cache, fs, files, template)
                  ELSE [cachedFiles |-> <<>>, uncachedFiles |-> files, cache |-> cache]
     IN  /\ bT' = bT + 1
         /\ IF /\ bMode \notin CodeReviewerModes
               /\ getOptimalModel(reviewerConfig(bMode), BatchAvail, template).threw # ""
              THEN /\ bPc' = "exited"
                   /\ UNCHANGED <<cache, bQueue, bI, bSt, bResults, bProgress, bSaves>>
              ELSE /\ cache' = sep.cache
                   /\ bProgress' =
                        [calls |-> {onProgress(i, Len(files), sep.cachedFiles[i].result.filePath)
                                      : i \in DOMAIN sep.cachedFiles},
                         n |-> Len(sep.cachedFiles)]
                   /\ bQueue' = [i \in DOMAIN sep.uncachedFiles |->
                                   sep.uncachedFiles[i].relativePath]
                   /\ bI' = 0
                   /\ bSaves' = 0
                   /\ bSt' = [i \in DOMAIN sep.uncachedFiles |-> NewSlot]
                   /\ bResults' = [i \in DOMAIN sep.cachedFiles |->
                                     sep.cachedFiles[i].result]
                   /\ bPc' = "wave"
  /\ UNCHANGED <<rateVars, now, fs, cacheDisk, lastCache, routerVars, sessionVars, bMode,
                 bConc, bArg, bFiles, bFinal, bAll, bFailed, bCalled, bPrev>>

\* The review call of the wave's k-th file is issued.  execSync blocks, so
\* under Claude Code the call starts when its predecessors have ended.
StartCall(k) ==
  /\ bPc = "wave"
  /\ k \in Wave
  /\ bSt[k].st = "new"
  /\ bMode = "claudeCode" =>
       \A j \in Wave : j # k => bSt[j].st = (IF j < k THEN "execDone" ELSE "new")
  /\ bSt' = [bSt EXCEPT ![k].st = "inflight"]
  /\ bCalled' = bCalled \cup {<<bQueue[k], getTemplates(bArg)[bT]>>}
  /\ UNCHANGED <<rateVars, now, cacheVars, routerVars, sessionVars, bMode, bConc, bArg,
                 bFiles, bFinal, bT, bQueue, bI, bResults, bAll, bPc, bFailed, bPrev,
                 bProgress, bSaves>>

\* CodeReviewer's processedCount during the wave that starts at bI: the
\* number of cached files plus the lengths of the waves settled so far.
processedCount == (Len(bFinal) - Len(bQueue)) + bI

\* A callback that reports the file's index inside its wave only.
ProgressIndex_InWave(k) == (k - bI - 1) + 1

\* The index the callback of the wave's file k reports:
\* processedCount + batchIndex + 1 in CodeReviewer, i + batchIndex + 1 in
\* MultiModelReviewer.
ProgressIndex(k) ==
  (IF bMode \in CodeReviewerModes THEN processedCount ELSE bI) + (k - bI - 1) + 1

\* bProgress after the onProgress call for the wave's file k.
ProgressAfter(k) ==
  [calls |-> bProgress.calls \cup {onProgress(ProgressIndex(k), Len(bFinal), bQueue[k])},
   n |-> bProgress.n + 1]

\* The review call of file k succeeds.
CallSucceeds(k) ==
  /\ bPc = "wave"
  /\ k \in DOMAIN bSt
  /\ bSt[k].st = "inflight"
  /\ LET template == getTemplates(bArg)[bT]
         result == ReviewResult(bQueue[k], template, now, detectIssues(bQueue[k]))
     IN  IF bMode = "claudeCode"
           THEN /\ bSt' = [bSt EXCEPT ![k] = [st |-> "execDone", result |-> result]]
                /\ cache' = cache
                /\ bProgress' = bProgress
           ELSE /\ bSt' = [bSt EXCEPT ![k] = [st |-> "ok", result |-> result]]
                /\ bProgress' = ProgressAfter(k)
                /\ cache' = IF bMode = "apiKey"
                              THEN cacheResult(cache, fs, now, FileInfo(fs, bQueue[k]),
                                               template, result)
                              ELSE cache
  /\ UNCHANGED <<rateVars, now, fs, cacheDisk, lastCache, routerVars, sessionVars, bMode,
                 bConc, bArg, bFiles, bFinal, bT, bQueue, bI, bResults, bAll, bPc,
                 bFailed, bCalled, bPrev, bSaves>>

\* Under Claude Code the rest of the file's callback runs once the wave's
\* map has ended: the result is cached.
Continue(k) ==
  /\ bPc = "wave"
  /\ bMode = "claudeCode"
  /\ k \in Wave
  /\ bSt[k].st = "execDone"
  /\ \A j \in Wave : bSt[j].st = (IF j < k THEN "ok" ELSE "execDone")
  /\ bSt' = [bSt EXCEPT ![k].st = "ok"]
  /\ cache' = cacheResult(cache, fs, now, FileInfo(fs, bQueue[k]),
                          getTemplates(bArg)[bT], bSt[k].result)
  /\ bProgress' = ProgressAfter(k)
  /\ UNCHANGED <<rateVars, now, fs, cacheDisk, lastCache, routerVars, sessionVars, bMode,
                 bConc, bArg, bFiles, bFinal, bT, bQueue, bI, bResults, bAll, bPc,
                 bFailed, bCalled, bPrev, bSaves>>

\* The review call of file k fails.  CodeReviewer's catch blocks call an
\* ErrorHandler method that ends the process; MultiModelReviewer.reviewFile
\* catches what reviewCode throws.
CallFails(k) ==
  /\ bPc = "wave"
  /\ k \in DOMAIN bSt
  /\ bSt[k].st = "inflight"
  /\ Cardinality(bFailed) < MaxFailures
  /\ LET template == getTemplates(bArg)[bT]
         caught == reviewFileCatch(reviewCodeError, bQueue[k], template, now)
     IN  /\ bFailed' = bFailed \cup {<<bQueue[k], template>>}
         /\ IF bMode \in CodeReviewerModes \/ caught.exits
              THEN /\ bPc' = "exited"
                   /\ bSt' = bSt
                   /\ bProgress' = bProgress
              ELSE /\ bPc' = bPc
                   /\ bSt' = [bSt EXCEPT ![k] = [st |-> "ok", result |-> caught.result]]
                   /\ bProgress' = ProgressAfter(k)
  /\ UNCHANGED <<rateVars, now, cacheVars, routerVars, sessionVars, bMode, bConc, bArg,
                 bFiles, bFinal, bT, bQueue, bI, bResults, bAll, bCalled, bPrev, bSaves>>

\* Promise.all of the wave resolves: the wave's results are pushed and the
\* loop goes on; after the last wave the cache is saved, reviewMultipleFiles
\* returns, and main marks the results completed and, after the last
\* template, completes the session.
WaveSettles ==
  /\ bPc = "wave"
  /\ \A k \in Wave : bSt[k].st \in {"ok", "null"}
  /\ LET b == batchSlice(bI, bConc, Len(bQueue))
         results == bResults \o batchResults(bSt, b.from, b.to)
         marked == markFilesCompleted(sCur, results)
         last == bT = Len(getTemplates(bArg))
     IN  /\ bResults' = results
         /\ bI' = bI + bConc
         /\ IF bI + bConc < Len(bQueue)
              THEN /\ bPc' = IF bMode = "claudeCode" THEN "wave" ELSE "pause"
                   /\ UNCHANGED <<cacheDisk, sessionVars, bAll, bSaves>>
              ELSE /\ cacheDisk' = IF bMode \in CodeReviewerModes
                                     THEN saveCache(cache) ELSE cacheDisk
                   /\ bSaves' = IF bMode \in CodeReviewerModes
                                  THEN bSaves + 1 ELSE bSaves
                   /\ bAll' = bAll \o results
                   /\ sPrev' = sPrev
                   /\ IF last
                        THEN /\ sDisk' = MapDelete(saveSession(sDisk, marked), marked.id)
                             /\ sCur' = NoSession
                             /\ sLast' = [NoSessionCall EXCEPT !.op = "completeSession"]
                             /\ bPc' = "done"
                        ELSE /\ sDisk' = saveSession(sDisk, marked)
                             /\ sCur' = marked
                             /\ sLast' = [NoSessionCall EXCEPT !.op = "markFilesCompleted"]
                             /\ bPc' = "main"
  /\ UNCHANGED <<rateVars, now, fs, cache, lastCache, routerVars, bMode, bConc, bArg, bFiles,
                 bFinal, bT, bQueue, bSt, bFailed, bCalled, bPrev, bProgress>>

\* The pause between two waves ends.
PauseEnds ==
  /\ bPc = "pause"
  /\ bPc' = "wave"
  /\ UNCHANGED <<rateVars, now, cacheVars, routerVars, sessionVars, bMode, bConc, bArg,
                 bFiles, bFinal, bT, bQueue, bI, bSt, bResults, bAll, bFailed,
                 bCalled, bPrev, bProgress, bSaves>>

\* The process is killed: what it held in memory is gone.
Crash ==
  /\ bPc \in {"main", "wave", "pause"}
  /\ bPc' = "crashed"
  /\ cache' = EmptyMap
  /\ bFinal' = <<>> /\ bT' = 0 /\ bQueue' = <<>> /\ bI' = 0 /\ bSt' = <<>>
  /\ bResults' = <<>> /\ bAll' = <<>> /\ bFailed' = {} /\ bCalled' = {}
  /\ bProgress' = NoProgress /\ bSaves' = 0
  /\ UNCHANGED <<rateVars, now, fs, cacheDisk, lastCache, routerVars, sessionVars, bMode,
                 bConc, bArg, bFiles, bPrev>>

\* A later invocation of the program on the same project: a new
\* CacheManager loads review-cache.json, a new ReviewSessionManager is made.
NextInvocation ==
  /\ bPc \in {"done", "exited", "crashed"}
  /\ now < MaxTime
  /\ now' = now + 1
  /\ cache' = IF bMode \in CodeReviewerModes THEN loadCache(cacheDisk) ELSE cache
  /\ sPrev' = IF sCur.id \in DOMAIN sDisk THEN sDisk[sCur.id] ELSE NoSession
  /\ sCur' = NoSession
  /\ sLast' = [NoSessionCall EXCEPT !.op = "restart"]
  /\ bPrev' = IF bPc = "done" THEN SeqToSet(bAll) ELSE {}
  /\ bFinal' = <<>> /\ bT' = 0 /\ bQueue' = <<>> /\ bI' = 0 /\ bSt' = <<>>
  /\ bResults' = <<>> /\ bAll' = <<>> /\ bPc' = "idle"
  /\ bFailed' = {} /\ bCalled' = {} /\ bProgress' = NoProgress /\ bSaves' = 0
  /\ UNCHANGED <<rateVars, fs, cacheDisk, lastCache, sDisk, routerVars, bMode, bConc, bArg, bFiles>>

InitBatch ==
  /\ now = 0
  /\ CacheIdle /\ RouterIdle /\ SessionIdle /\ RateIdle
  /\ bMode \in BatchModes
  /\ bConc \in 1..Concurrency
  /\ bArg \in BatchArgs
  /\ \E n \in 1..MaxFiles : bFiles = SubSeq(FileSeq, 1, n)
  /\ bFinal = <<>> /\ bT = 0 /\ bQueue = <<>> /\ bI = 0 /\ bSt = <<>>
  /\ bResults = <<>> /\ bAll = <<>> /\ bPc = "idle"
  /\ bFailed = {} /\ bCalled = {} /\ bPrev = {}
  /\ bProgress = NoProgress
  /\ bSaves = 0

NextBatch ==
  \/ \E r \in BOOLEAN : MainStart(r)
  \/ BeginReview
  \/ \E k \in 1..MaxFiles : StartCall(k)
  \/ \E k \in 1..MaxFiles : CallSucceeds(k)
  \/ \E k \in 1..MaxFiles : Continue(k)
  \/ \E k \in 1..MaxFiles : CallFails(k)
  \/ WaveSettles
  \/ PauseEnds
  \/ Crash
  \/ NextInvocation

SpecBatch == InitBatch /\ [][NextBatch]_vars

InFlight == {k \in DOMAIN bSt : bSt[k].st = "inflight"}

WaveOf(k) == (k - 1) \div bConc

\* C8: at every moment at most `concurrency` review calls are in flight, and
\* no call for a file of a later wave has been issued while a call of an
\* earlier wave has not settled.
C8_BoundedWaves ==
  /\ Cardinality(InFlight) <= bConc
  /\ \A k, j \in DOMAIN bSt :
       (bSt[k].st # "new" /\ WaveOf(j) < WaveOf(k))
         => bSt[j].st \in {"execDone", "ok", "null"}

C8_Witness ==
  /\ bConc = 2
  /\ Cardinality(InFlight) = 2
  /\ \E k \in InFlight : WaveOf(k) = 1

\* C1: when reviewMultipleFiles of CodeReviewer ran to its end with the cache
\* enabled and runs again on the unchanged files, every file the first run
\* returned a result for is a cache hit in the second run: no provider call
\* is issued for it, and the list of the second run holds the same result.
C1_SecondRunHitsCache ==
  bMode \in CodeReviewerModes =>
    \A r \in bPrev :
      /\ <<r.filePath, r.template>> \notin bCalled
      /\ (bT > 0 /\ getTemplates(bArg)[bT] = r.template /\ bPc \in {"wave", "pause"})
           => r \in SeqToSet(bResults)

\* C6: in CodeReviewer.reviewMultipleFiles the failure of one file's provider
\* call does not end the invocation.
C6_FailureDoesNotTerminate ==
  (bMode \in CodeReviewerModes /\ bFailed # {}) => bPc # "exited"

\* C7: the list a batch run returns holds no result for a file whose review
\* failed, and no result with hasIssues = false is made for such a file.
C7_NoResultForFailedFile ==
  \A k \in DOMAIN bSt :
    <<bQueue[k], getTemplates(bArg)[bT]>> \in bFailed
      => /\ bSt[k].st # "ok"
         /\ \A i \in DOMAIN bResults : bResults[i].filePath # bQueue[k]

\* C9: while a batch runs, the persisted session holds the results of every
\* wave that has settled; only the wave in flight is missing from it.
C9_SettledWavesPersisted ==
  (bPc \in {"wave", "pause"} /\ sCur.id \in DOMAIN sDisk) =>
    \A i \in DOMAIN bResults :
      \E j \in DOMAIN sDisk[sCur.id].completedResults :
        /\ sDisk[sCur.id].completedResults[j].filePath = bResults[i].filePath
        /\ sDisk[sCur.id].completedResults[j].template = bResults[i].template

(***************************************************************************)
(* Rate tracking: TokenTracker and ModelStatusChecker.                     *)
(***************************************************************************)
\* TokenTracker.rateLimits
requestsPerMinute == 5
tokensPerMinute == 40000

\* The length of the per-minute window, in milliseconds.
OneMinute == 60000
OneDay == 86400000

\* The instants at which something happens, the token counts of the
\* recorded calls, and the estimates checked.
RateInstants == {0, 500, 60000, 60500, 120000}
RateTokens == {10, 39000}
RateEstimates == {1000, 41000}
RateModel == "claude-sonnet"

RECURSIVE SeqSum(_)
SeqSum(q) == IF q = <<>> THEN 0 ELSE Head(q) + SeqSum(Tail(q))

SeqMin(q) == CHOOSE x \in SeqToSet(q) : \A y \in SeqToSet(q) : x <= y

\* The indices of q whose element is later than t.
After(q, t) == {i \in DOMAIN q : q[i] > t}

\* q restricted to the indices in keep, in order.
RECURSIVE Pick(_, _, _)
Pick(q, keep, i) ==
  IF i > Len(q) THEN <<>>
  ELSE (IF i \in keep THEN <<q[i]>> ELSE <<>>) \o Pick(q, keep, i + 1)

\* TokenTracker.recordUsage: [requestTimes, tokenUsageMinute] after it.  The
\* token log is filtered by the index test requestTimes[index] !== undefined
\* on the already filtered requestTimes: its first Len(requestTimes) entries stay.
recordUsage(times, tokens, t, totalTokens) ==
  LET pushed == Append(times, t)
      kept == Pick(pushed, After(pushed, t - OneMinute), 1)
  IN  [requestTimes |-> kept,
       tokenUsageMinute |-> SubSeq(Append(tokens, totalTokens), 1, Len(kept))]

\* Math.ceil((oldest + 60000 - now) / 1000)
WaitSeconds(oldest, t) == CeilDiv(oldest + OneMinute - t, 1000)

\* TokenTracker.canMakeRequest.  Without a recent request the token branch
\* computes its wait from undefined: NaN, no wait.
canMakeRequest(times, tokens, t, estimatedTokens) ==
  LET recent == After(times, t - OneMinute)
      recentTimes == Pick(times, recent, 1)
      recentTokens == SeqSum(Pick(tokens, recent \cap DOMAIN tokens, 1))
  IN  IF Cardinality(recent) >= requestsPerMinute
        THEN [allowed |-> FALSE, hasWait |-> TRUE,
              waitTime |-> WaitSeconds(SeqMin(recentTimes), t),
              reason |-> "requests per minute"]
      ELSE IF recentTokens + estimatedTokens > tokensPerMinute
        THEN [allowed |-> FALSE, hasWait |-> recent # {},
              waitTime |-> IF recent # {} THEN WaitSeconds(SeqMin(recentTimes), t) ELSE 0,
              reason |-> "tokens per minute"]
      ELSE [allowed |-> TRUE, hasWait |-> FALSE, waitTime |-> 0, reason |-> ""]

\* Map.get(modelKey) || []
HistoryOf(h, modelKey) == IF modelKey \in DOMAIN h THEN h[modelKey] ELSE <<>>

\* ModelStatusChecker.cleanOldEntries of one history, whose entries carry
\* the timestamps stamps.
cleanOldEntries(q, stamps, t) ==
  Pick(q, {i \in DOMAIN q : stamps[i] > t - OneDay}, 1)

\* ModelStatusChecker.getCurrentUsage
getCurrentUsage(requests, tokens, t) ==
  [requestsThisMinute |-> Cardinality(After(requests, t - OneMinute)),
   tokensThisMinute |->
     SeqSum(Pick([i \in DOMAIN tokens |-> tokens[i].tokens],
                 {i \in DOMAIN tokens : tokens[i].timestamp > t - OneMinute}, 1)),
   requestsToday |-> Cardinality(After(requests, t - OneDay))]

\* ModelStatusChecker.determineStatus
determineStatus(modelKey, requests, tokens, t) ==
  LET limits == MODEL_LIMITS[modelKey].rateLimit
      usage == getCurrentUsage(requests, tokens, t)
      recentRequests == Pick(requests, After(requests, t - OneMinute), 1)
      recentStamps == Pick([i \in DOMAIN tokens |-> tokens[i].timestamp],
                           {i \in DOMAIN tokens : tokens[i].timestamp > t - OneMinute}, 1)
  IN  IF usage.requestsThisMinute >= limits.requestsPerMinute
        THEN [allowed |-> FALSE, hasWait |-> TRUE,
              waitTime |-> WaitSeconds(SeqMin(recentRequests), t),
              reason |-> "requests per minute"]
      ELSE IF usage.tokensThisMinute >= limits.tokensPerMinute
        THEN [allowed |-> FALSE, hasWait |-> TRUE,
              waitTime |-> WaitSeconds(SeqMin(recentStamps), t),
              reason |-> "tokens per minute"]
      ELSE IF usage.requestsToday >= limits.requestsPerDay
        THEN [allowed |-> FALSE, hasWait |-> FALSE, waitTime |-> 0,
              reason |-> "requests per day"]
      ELSE [allowed |-> TRUE, hasWait |-> FALSE, waitTime |-> 0, reason |-> ""]

\* Time passes.
Advance(t) ==
  /\ t > clock
  /\ clock' = t
  /\ tLast' = NoRateCheck
  /\ UNCHANGED <<now, requestTimes, tokenUsageMinute, requestHistory, tokenHistory,
                 cacheVars, routerVars, sessionVars, batchVars>>

\* reviewWithOptimalModel records a finished call: tokenTracker.addTokens
\* and statusChecker.recordRequest.
RecordCall(totalTokens) ==
  /\ Len(HistoryOf(requestHistory, RateModel)) < MaxRecords
  /\ LET recorded == recordUsage(requestTimes, tokenUsageMinute, clock, totalTokens)
         requests == Append(HistoryOf(requestHistory, RateModel), clock)
         tokens == Append(HistoryOf(tokenHistory, RateModel),
                          [timestamp |-> clock, tokens |-> totalTokens])
     IN  /\ requestTimes' = recorded.requestTimes
         /\ tokenUsageMinute' = recorded.tokenUsageMinute
         /\ requestHistory' =
              MapSet(requestHistory, RateModel, cleanOldEntries(requests, requests, clock))
         /\ tokenHistory' =
              MapSet(tokenHistory, RateModel,
                     cleanOldEntries(tokens, [i \in DOMAIN tokens |-> tokens[i].timestamp],
                                     clock))
  /\ tLast' = NoRateCheck
  /\ UNCHANGED <<now, clock, cacheVars, routerVars, sessionVars, batchVars>>

\* tokenTracker.canMakeRequest(estimatedTokens)
CanMakeRequest(estimatedTokens) ==
  /\ tLast' = [op |-> "canMakeRequest", estimatedTokens |-> estimatedTokens]
              @@ canMakeRequest(requestTimes, tokenUsageMinute, clock, estimatedTokens)
  /\ UNCHANGED <<now, clock, requestTimes, tokenUsageMinute, requestHistory,
                 tokenHistory, cacheVars, routerVars, sessionVars, batchVars>>

\* statusChecker.getModelStatus(modelKey)
GetModelStatus ==
  /\ tLast' = [op |-> "getModelStatus", estimatedTokens |-> 0]
              @@ determineStatus(RateModel, HistoryOf(requestHistory, RateModel),
                                 HistoryOf(tokenHistory, RateModel), clock)
  /\ UNCHANGED <<now, clock, requestTimes, tokenUsageMinute, requestHistory,
                 tokenHistory, cacheVars, routerVars, sessionVars, batchVars>>

InitRate ==
  now = 0 /\ CacheIdle /\ RouterIdle /\ SessionIdle /\ BatchIdle /\ RateIdle

NextRate ==
  \/ \E t \in RateInstants : Advance(t)
  \/ \E n \in RateTokens : RecordCall(n)
  \/ \E e \in RateEstimates : CanMakeRequest(e)
  \/ GetModelStatus

SpecRate == InitRate /\ [][NextRate]_vars

\* The calls recorded for the model, and those of the last minute.
Recorded == HistoryOf(tokenHistory, RateModel)
InWindow == {i \in DOMAIN Recorded : Recorded[i].timestamp > clock - OneMinute}
WindowTokens == SeqSum(Pick([i \in DOMAIN Recorded |-> Recorded[i].tokens], InWindow, 1))

\* The last requestsPerMinute recorded calls lie within one minute.
BurstRecorded ==
  /\ Len(Recorded) >= requestsPerMinute
  /\ Recorded[Len(Recorded)].timestamp
       - Recorded[Len(Recorded) - requestsPerMinute + 1].timestamp < OneMinute

BurstOldest == Recorded[Len(Recorded) - requestsPerMinute + 1].timestamp

\* C10: when requestsPerMinute calls were recorded within one minute, the
\* rate check answers not allowed with a wait of at least one second while
\* they are all in the window; once 60 seconds have passed since the oldest
\* of them with nothing recorded since, the check answers allowed (here even
\* granted that the tokens of the calls still in the window and the
\* estimate stay within tokensPerMinute).
C10_WindowElapses ==
  (tLast.op \in {"canMakeRequest", "getModelStatus"} /\ BurstRecorded) =>
    /\ Cardinality(InWindow) >= requestsPerMinute
         => (~tLast.allowed /\ tLast.hasWait /\ tLast.waitTime >= 1)
    /\ (/\ clock >= BurstOldest + OneMinute
        /\ WindowTokens + tLast.estimatedTokens < tokensPerMinute)
         => tLast.allowed

(***************************************************************************)
(* SpecPartition: CacheManager.separateFiles on file lists.                *)
(***************************************************************************)
PartPaths == {"a.ts", "b.ts"}
PartTemplate == "quality"

\* The file lists handed to separateFiles: up to MaxList files, repeats allowed.
FileLists == UNION {[1..n -> PartPaths] : n \in 0..MaxList}

\* CacheManager.hasAnyCache: the Map has an entry of the file for some template.
hasAnyCache(c, file) ==
  \E template \in Templates : HasEntry(c, getCacheKey(file.relativePath, template))


\* Seconds a review is taken to last in estimateTimeSaved.
avgReviewTime == 30

\* The CacheStats of separateFiles, computed after its loop on the Map as the
\* lookups left it; timeSaved is the number of seconds that the code formats.
separateFilesStats(sep, files) ==
  LET counted(asChanged) ==
        Cardinality({i \in DOMAIN sep.uncachedFiles :
                       hasAnyCache(sep.cache, sep.uncachedFiles[i]) = asChanged})
  IN  [totalFiles |-> Len(files),
       cachedFiles |-> Len(sep.cachedFiles),
       newFiles |-> counted(FALSE),
       changedFiles |-> counted(TRUE),
       timeSaved |-> Len(sep.cachedFiles) * avgReviewTime]

\* cacheManager.separateFiles(files, template) on the files as scanned now.
SeparateFilesCall(paths, template) ==
  LET files == [i \in DOMAIN paths |-> FileInfo(fs, paths[i])]
      sep == separateFiles(cache, fs, files, template)
  IN  /\ cache' = sep.cache
      /\ lastCache' = [op |-> "separateFiles", template |-> template,
                       files |-> files, before |-> cache,
                       cachedFiles |-> sep.cachedFiles,
                       uncachedFiles |-> sep.uncachedFiles,
                       stats |-> separateFilesStats(sep, files)]
      /\ UNCHANGED <<now, fs, cacheDisk, nonCacheVars>>

InitPartition ==
  now = 0 /\ CacheIdle /\ RouterIdle /\ SessionIdle /\ BatchIdle /\ RateIdle

NextPartition ==
  \/ \E p \in PartPaths, c \in Contents, k \in BOOLEAN : ModifyFile(p, c, k)
  \/ \E p \in PartPaths, h \in BOOLEAN : CacheResultCall(p, PartTemplate, h)
  \/ \E q \in FileLists : SeparateFilesCall(q, PartTemplate)

SpecPartition == InitPartition /\ [][NextPartition]_vars

\* How often x occurs in q.
Occurrences(q, x) == Cardinality({i \in DOMAIN q : q[i] = x})

\* C11: separateFiles puts every file of its input in exactly one of
\* cachedFiles and uncachedFiles, as often as the input holds it: no file is
\* dropped, none is duplicated, none is in both lists.
C11_PartitionCoversInput ==
  lastCache.op = "separateFiles" =>
    LET hits == [i \in DOMAIN lastCache.cachedFiles |-> lastCache.cachedFiles[i].file]
        misses == lastCache.uncachedFiles
    IN  /\ Len(hits) + Len(misses) = Len(lastCache.files)
        /\ \A i \in DOMAIN lastCache.files :
             LET f == lastCache.files[i]
             IN  /\ Occurrences(hits, f) + Occurrences(misses, f)
                      = Occurrences(lastCache.files, f)
                 /\ ~(Occurrences(hits, f) > 0 /\ Occurrences(misses, f) > 0)

C11_Witness ==
  /\ lastCache.op = "separateFiles"
  /\ Len(lastCache.files) = MaxList
  /\ \E i, j \in DOMAIN lastCache.files :
       /\ lastCache.files[i].relativePath # lastCache.files[j].relativePath
       /\ HasEntry(lastCache.before,
                   getCacheKey(lastCache.files[i].relativePath, lastCache.template))
       /\ ~HasEntry(lastCache.before,
                    getCacheKey(lastCache.files[j].relativePath, lastCache.template))

\* The files of the batch that the previous, completed invocation cached a
\* result of the template under review for: with the files unchanged, the
\* cache hits of this run.
PreviouslyCached ==
  {p \in SeqToSet(bFinal) :
     \E r \in bPrev : r.filePath = p /\ r.template = getTemplates(bArg)[bT]}

\* C13: a batch with h cache hits and m misses emits the h cached results
\* and dispatches the m misses in ceil(m / c) consecutive waves, each but the
\* last of size c; when every call succeeds the returned list has h + m results.
C13_HitsThenWaves ==
  (bMode \in CodeReviewerModes /\ bT > 0 /\ bPc \in {"wave", "pause", "done"}) =>
    LET h == Cardinality(PreviouslyCached)
        m == Len(bFinal) - h
        b == batchSlice(bI, bConc, Len(bQueue))
    IN  /\ Len(bQueue) = m
        /\ bI % bConc = 0
        /\ bI <= bConc * CeilDiv(m, bConc)
        /\ (bPc = "wave" /\ bI + bConc < m) => b.to - b.from + 1 = bConc
        /\ (bPc = "done" /\ bFailed = {}) => Len(bResults) = h + m

(***************************************************************************)
(* MultiModelReviewer.reviewWithOptimalModel in multi-model mode: the      *)
(* router of reviewCode followed by the records of the rate trackers.      *)
(***************************************************************************)
\* Length in characters of a provider's response text.
ContentLength == 800

\* main in multi-model mode: the provider it constructs for --multi-model
\* with or without --model, and the credentials found.  Without --model both
\* providers are required; with it only the provider of that model, while
\* the keys of the other provider are handed to the constructor all the same.
InitMultiModel ==
  /\ now = 0
  /\ CacheIdle
  /\ SessionIdle
  /\ BatchIdle
  /\ RateIdle
  /\ \E specificModel \in {""} \cup ModelKeys, creds \in Credentials :
       LET needsClaude == specificModel = "" \/ IsClaude(specificModel)
           needsGemini == specificModel = "" \/ IsGemini(specificModel)
           hasClaudeCode == needsClaude /\ creds.claudeCode
           hasApiKey == needsClaude /\ creds.apiKey
           authenticated == /\ needsClaude => (hasClaudeCode \/ hasApiKey)
                            /\ needsGemini => creds.geminiKey
       IN  /\ rAvail = [claude |-> hasClaudeCode \/ creds.apiKey,
                        gemini |-> creds.geminiKey,
                        useClaudeCode |-> hasClaudeCode]
           /\ rCfg = [multiModelConfig EXCEPT
                        !.primaryModel = IF specificModel # "" THEN specificModel ELSE @]
           /\ rPc = IF authenticated THEN "idle" ELSE "exited"
  /\ rChain = <<>>
  /\ rReq \in [template : RouterTemplates, code : CodeSamples]
  /\ rFails \in SUBSET ModelKeys
  /\ rCur = ""
  /\ rIdx = 0
  /\ rCalls = <<>>
  /\ rRet = ""
  /\ cmp = NoCompare

\* ModelResponse.tokensUsed, input + output, of a successful call: the usage
\* the Anthropic API reports, 0 under Claude Code, and for Gemini a quarter
\* of the lengths of the prompt and of the response.
tokensUsed(avail, m, req, usage) ==
  IF IsClaude(m)
    THEN IF avail.useClaudeCode THEN 0 ELSE usage
    ELSE CeilDiv(PromptLength + FilenameLength + req.code.length + 51, 4)
         + CeilDiv(ContentLength, 4)

\* reviewWithOptimalModel after the call in flight succeeds: reviewCode
\* returns the response, tokenTracker.addTokens and
\* statusChecker.recordRequest record it under the key of its model.
ReviewRecorded(usage) ==
  /\ rPc = "calling"
  /\ ~callFails(rAvail, rFails, rCur)
  /\ rPc' = "returned"
  /\ rRet' = rCur
  /\ LET total == tokensUsed(rAvail, rCur, rReq, usage)
         recorded == recordUsage(requestTimes, tokenUsageMinute, clock, total)
         requests == Append(HistoryOf(requestHistory, rCur), clock)
         tokens == Append(HistoryOf(tokenHistory, rCur),
                          [timestamp |-> clock, tokens |-> total])
     IN  /\ requestTimes' = recorded.requestTimes
         /\ tokenUsageMinute' = recorded.tokenUsageMinute
         /\ requestHistory' =
              MapSet(requestHistory, rCur, cleanOldEntries(requests, requests, clock))
         /\ tokenHistory' =
              MapSet(tokenHistory, rCur,
                     cleanOldEntries(tokens, [i \in DOMAIN tokens |-> tokens[i].timestamp],
                                     clock))
  /\ UNCHANGED <<now, clock, tLast, rChain, rCfg, rAvail, rReq, rFails, rCur, rIdx, rCalls,
                 cmp, cacheVars, sessionVars, batchVars>>

NextMultiModel ==
  \/ ReviewCodeBegin
  \/ CallRejects
  \/ \E usage \in RateTokens : ReviewRecorded(usage)

SpecMultiModel == InitMultiModel /\ [][NextMultiModel]_vars

\* C14: every provider call the router attempted, failed or successful, has
\* a record of the rate tracker for the attempted model, with a token count
\* that is the actual usage or an estimate.
C14_EveryAttemptRecorded ==
  ReviewCodeDone =>
    \A i \in DOMAIN rCalls :
      /\ Len(HistoryOf(requestHistory, rCalls[i])) = 1
      /\ \A j \in DOMAIN HistoryOf(tokenHistory, rCalls[i]) :
           HistoryOf(tokenHistory, rCalls[i])[j].tokens > 0

\* C15: no call is issued to a model whose input or output ceiling the
\* estimate of the request exceeds, first candidate and fallbacks alike.
C15_NoCallBeyondLimits ==
  \A i \in DOMAIN rCalls : fitsWithinLimits(RequestEstimate(rReq), rCalls[i])

(***************************************************************************)
(* Auto-fallback mode as main sets it up: the priority chain of the        *)
(* template given on the command line.                                     *)
(***************************************************************************)
CliTemplates == {"quality", "security", "performance", "typescript", "combined", "all"}

\* main: getModelPriority
getModelPriority(template) ==
  CASE template = "security" ->
         <<"claude-sonnet", "claude-haiku", "gemini-pro", "gemini-flash">>
    [] template = "combined" ->
         <<"claude-sonnet", "gemini-pro", "claude-haiku", "gemini-flash">>
    [] template = "performance" ->
         <<"gemini-flash", "gemini-pro", "claude-haiku", "claude-sonnet">>
    [] template = "typescript" ->
         <<"gemini-flash", "claude-haiku", "gemini-pro", "claude-sonnet">>
    [] OTHER ->
         <<"gemini-flash", "claude-haiku", "gemini-pro", "claude-sonnet">>

\* main with --auto-fallback: the chain of the template, the credentials
\* found, the filtered chain and the provider constructed from it; then a
\* request of one of the templates under review.
InitAutoFallback ==
  /\ now = 0
  /\ CacheIdle
  /\ SessionIdle
  /\ BatchIdle
  /\ RateIdle
  /\ \E template \in CliTemplates, creds \in Credentials :
       LET modelFallbackChain == getModelPriority(template)
           filtered == FilterChain(modelFallbackChain, creds)
       IN  /\ rChain = filtered
           /\ rAvail = [claude |-> creds.claudeCode \/ creds.apiKey,
                        gemini |-> creds.geminiKey]
           /\ IF filtered = <<>>
                THEN /\ rPc = "exited"
                     /\ rCfg = [primaryModel |-> "", fallbackModels |-> <<>>,
                                hasTemplateMappings |-> FALSE]
                ELSE /\ rPc = "idle"
                     /\ rCfg = fallbackConfig(filtered)
           /\ \E i \in DOMAIN getTemplates(template) :
                rReq \in [template : {getTemplates(template)[i]}, code : CodeSamples]
  /\ rFails \in SUBSET ModelKeys
  /\ rCur = ""
  /\ rIdx = 0
  /\ rCalls = <<>>
  /\ rRet = ""
  /\ cmp = NoCompare

SpecAutoFallback == InitAutoFallback /\ [][NextRouter]_vars

\* Whether the provider of a model has a client.
Authenticated(avail, m) == (IsClaude(m) /\ avail.claude) \/ (IsGemini(m) /\ avail.gemini)

\* The position of x in q, 0 when it is absent.
PositionIn(q, x) == IF Contains(q, x) THEN CHOOSE i \in DOMAIN q : q[i] = x ELSE 0

\* The candidate list of the provider: primaryModel, then fallbackModels.
Candidates == IF rCfg.primaryModel = "" THEN <<>> ELSE <<rCfg.primaryModel>> \o rCfg.fallbackModels

\* The candidates the estimate of the request fits, in the order of the list.
FittingCandidates ==
  FilterSeq(Candidates, {m \in ModelKeys : fitsWithinLimits(RequestEstimate(rReq), m)})

\* C16: in auto-fallback mode the candidate list is the priority chain with
\* exactly the models of unauthenticated providers removed, order preserved,
\* and it is used verbatim: the calls follow it.  Every model called is
\* authenticated and a member of the chain.
C16_ChainVerbatimAuthenticated ==
  /\ \E t \in {rReq.template, "all"} :
       LET chain == getModelPriority(t)
       IN  /\ SeqToSet(Candidates) = {m \in SeqToSet(chain) : Authenticated(rAvail, m)}
           /\ \A i, j \in DOMAIN Candidates :
                i < j => PositionIn(chain, Candidates[i]) < PositionIn(chain, Candidates[j])
  /\ \A k \in DOMAIN rCalls :
       /\ Authenticated(rAvail, rCalls[k])
       /\ Contains(Candidates, rCalls[k])
       /\ k <= Len(FittingCandidates) /\ rCalls[k] = FittingCandidates[k]

(***************************************************************************)
(* markFilesCompleted on result lists of any shape.                        *)
(***************************************************************************)
MaxResults == 2
MaxCompleted == 3

\* The scanned files of the session, and the file paths results can carry:
\* d.ts is not a file of the session.
MarkFiles ==
  <<FileInfo(InitFiles, "a.ts"), FileInfo(InitFiles, "b.ts"), FileInfo(InitFiles, "c.ts")>>
MarkPaths == {"a.ts", "b.ts", "c.ts", "d.ts"}
ResultPathLists == UNION {[1..n -> MarkPaths] : n \in 0..MaxResults}

\* markFilesCompleted(results): without a current session it returns at
\* once; otherwise it updates the session and writes its record.
MarkFilesCompletedCall(paths) ==
  /\ Len(sCur.completedResults) + Len(paths) <= MaxCompleted
  /\ LET results == [i \in DOMAIN paths |-> ReviewResult(paths[i], sCur.template, now, TRUE)]
         session == markFilesCompleted(sCur, results)
     IN  /\ sLast' = [op |-> "markFilesCompleted", before |-> sCur, results |-> results]
         /\ IF sCur = NoSession
              THEN UNCHANGED <<sCur, sDisk>>
              ELSE /\ sCur' = session
                   /\ sDisk' = saveSession(sDisk, session)
  /\ UNCHANGED <<now, sPrev, nonSessionVars>>

NextMark ==
  \/ \E tp \in SessionTargets, r \in BOOLEAN : StartSession(MarkFiles, "quality", tp, r)
  \/ \E q \in ResultPathLists : MarkFilesCompletedCall(q)
  \/ CompleteSession
  \/ Restart

SpecMark == InitSession /\ [][NextMark]_vars

\* C17: markFilesCompleted appends the results to completedResults, removes
\* from pendingFiles exactly the files whose relativePath is the filePath of
\* a result, the others staying in place and order, sets completedFiles to
\* the length of completedResults, and has written the session record.
C17_MarkFilesCompleted ==
  (sLast.op = "markFilesCompleted" /\ sLast.before # NoSession) =>
    LET before == sLast.before
        completed(f) == \E i \in DOMAIN sLast.results :
                          sLast.results[i].filePath = f.relativePath
    IN  /\ sCur.completedResults = before.completedResults \o sLast.results
        /\ sCur.pendingFiles = SelectSeq(before.pendingFiles, LAMBDA f : ~completed(f))
        /\ sCur.completedFiles = Len(sCur.completedResults)
        /\ sCur.id \in DOMAIN sDisk
        /\ sDisk[sCur.id] = SessionToJson(sCur)

\* A call that removed the middle one of three pending files and carried a
\* result of a file that was not pending.
C17_Witness ==
  /\ sLast.op = "markFilesCompleted"
  /\ Len(sLast.before.pendingFiles) = 3
  /\ Len(sLast.results) = 2
  /\ \E i \in DOMAIN sLast.results : sLast.results[i].filePath = "d.ts"
  /\ Len(sCur.pendingFiles) = 2
  /\ sCur.pendingFiles[1].relativePath = "a.ts"
  /\ sCur.pendingFiles[2].relativePath = "c.ts"

\* The invocation ended without finishing its batch: an ErrorHandler or the
\* catch of main ended the process, or it was killed.
EndedAbnormally == bPc \in {"exited", "crashed"} /\ sLast.op # "completeSession"

\* C18: once completeSession has run, a load by the id of the completed
\* session finds nothing; when the invocation ends without finishing its
\* batch, completeSession has not run and the session directory holds the
\* record of the session as of its last checkpoint.
C18_RecordDeletedOnlyOnCompletion ==
  /\ sLast.op = "completeSession"
       => /\ sCur = NoSession
          /\ ~loadSession(sDisk, generateSessionId(BatchTarget, bArg, now)).found
  /\ bPrev # {} => ~loadSession(sDisk, generateSessionId(BatchTarget, bArg, now - 1)).found
  /\ (bPc \in {"exited", "crashed"} /\ sCur # NoSession)
       => /\ sLast.op # "completeSession"
          /\ loadSession(sDisk, sCur.id).found
          /\ loadSession(sDisk, sCur.id).session = SessionToJson(sCur)

\* A first invocation completed its session; the second one was killed after
\* a checkpoint, and its record is what is left in the session directory.
C18_Witness ==
  /\ bPc = "crashed"
  /\ bPrev # {}
  /\ EndedAbnormally
  /\ sCur.completedFiles > 0
  /\ DOMAIN sDisk = {sCur.id}

(***************************************************************************)
(* Comparison mode: MultiModelProvider.compareModels.                      *)
(***************************************************************************)
\* The most models a comparison queries.
MaxCompared == 3

\* callClaude under Claude Code runs the CLI with execSync, which blocks the
\* process until the call has ended.
Blocking(avail, m) == IsClaude(m) /\ avail.useClaudeCode

routerCallVars == <<rChain, rCfg, rAvail, rReq, rFails, rPc, rCur, rIdx, rCalls, rRet>>

\* compareModels(request) up to its map: the models selected.
CompareBegin ==
  /\ rPc = "idle"
  /\ cmp.pc = "idle"
  /\ LET availableModels == getAvailableModels(rAvail)
         actualModels == SubSeq(availableModels, 1, Min(MaxCompared, Len(availableModels)))
     IN  cmp' = [pc |-> IF actualModels = <<>> THEN "await" ELSE "map",
                 st |-> [i \in DOMAIN actualModels |->
                           [model |-> actualModels[i], st |-> "new"]],
                 ret |-> <<>>]
  /\ UNCHANGED <<routerCallVars, nonRouterVars>>

\* The callback of map calls callModel for the k-th model.  The callbacks
\* run in order, and none starts while a blocking call has not ended.
CompareCall(k) ==
  /\ cmp.pc = "map"
  /\ k \in DOMAIN cmp.st
  /\ cmp.st[k].st = "new"
  /\ \A j \in DOMAIN cmp.st : j < k => cmp.st[j].st # "new"
  /\ \A j \in DOMAIN cmp.st :
       cmp.st[j].st = "inflight" => ~Blocking(rAvail, cmp.st[j].model)
  /\ cmp' = [cmp EXCEPT !.st[k].st = "inflight",
                        !.pc = IF k = Len(cmp.st) /\ ~Blocking(rAvail, cmp.st[k].model)
                                 THEN "await" ELSE "map"]
  /\ UNCHANGED <<routerCallVars, nonRouterVars>>

\* The call of the k-th model ends: its promise resolves with the response,
\* or the catch of the callback resolves it with null.  A call that does not
\* block ends only after the map has returned.
CompareSettle(k) ==
  /\ k \in DOMAIN cmp.st
  /\ cmp.st[k].st = "inflight"
  /\ Blocking(rAvail, cmp.st[k].model) \/ cmp.pc = "await"
  /\ cmp' = [cmp EXCEPT !.st[k].st = IF callFails(rAvail, rFails, cmp.st[k].model)
                                       THEN "null" ELSE "ok",
                        !.pc = IF cmp.pc = "map" /\ k = Len(cmp.st) THEN "await" ELSE @]
  /\ UNCHANGED <<routerCallVars, nonRouterVars>>

\* The models of promises st that resolved with a response, in order.
RECURSIVE Responses(_)
Responses(st) ==
  IF st = <<>> THEN <<>>
  ELSE IF Head(st).st = "ok" THEN <<Head(st).model>> \o Responses(Tail(st))
  ELSE Responses(Tail(st))

\* Promise.all resolves and compareModels returns the non-null results.
CompareReturn ==
  /\ cmp.pc = "await"
  /\ \A k \in DOMAIN cmp.st : cmp.st[k].st \in {"ok", "null"}
  /\ cmp' = [cmp EXCEPT !.pc = "returned", !.ret = Responses(cmp.st)]
  /\ UNCHANGED <<routerCallVars, nonRouterVars>>

NextCompare ==
  \/ CompareBegin
  \/ \E k \in 1..MaxCompared : CompareCall(k)
  \/ \E k \in 1..MaxCompared : CompareSettle(k)
  \/ CompareReturn

SpecCompare == InitMultiModel /\ [][NextCompare]_vars

\* C19: compareModels queries at most three available models, each once and
\* all concurrently (every call is issued before any call has ended); a
\* failing model does not make it throw, and it returns the responses of
\* exactly the models whose call succeeded, in the order of selection.
C19_CompareModels ==
  /\ Len(cmp.st) <= 3
  /\ \A k \in DOMAIN cmp.st : Contains(getAvailableModels(rAvail), cmp.st[k].model)
  /\ \A k, j \in DOMAIN cmp.st : cmp.st[k].model = cmp.st[j].model => k = j
  /\ \A k, j \in DOMAIN cmp.st : cmp.st[k].st \in {"ok", "null"} => cmp.st[j].st # "new"
  /\ cmp.pc = "returned" =>
       /\ SeqToSet(cmp.ret) = {cmp.st[k].model : k \in {i \in DOMAIN cmp.st :
                                  ~callFails(rAvail, rFails, cmp.st[i].model)}}
       /\ \A a, b \in DOMAIN cmp.ret :
            a < b => PositionIn(getAvailableModels(rAvail), cmp.ret[a])
                     < PositionIn(getAvailableModels(rAvail), cmp.ret[b])

(***************************************************************************)
(* The construction of a CacheManager over a persisted record of any       *)
(* shape.                                                                  *)
(***************************************************************************)
LoadPaths == {"a.ts", "b.ts"}
LoadTemplate == "quality"

\* The entry saveCache writes for a review of the unchanged file p.
SavedEntry(p) ==
  saveCache(cacheResult(EmptyMap, InitFiles, 0, FileInfo(InitFiles, p), LoadTemplate,
                        ReviewResult(p, LoadTemplate, 0, TRUE)))[getCacheKey(p, LoadTemplate)]

\* The shapes of an entry in the file: as saved, null, without its result,
\* with a null result, and with a result that has no timestamp.
EntryShapes(p) ==
  { SavedEntry(p),
    JsonNull,
    [f \in (DOMAIN SavedEntry(p)) \ {"result"} |-> SavedEntry(p)[f]],
    [SavedEntry(p) EXCEPT !.result = JsonNull],
    [SavedEntry(p) EXCEPT !.result =
       [f \in (DOMAIN SavedEntry(p).result) \ {"timestamp"} |-> SavedEntry(p).result[f]]] }

\* What a key set and a choice of entries make of review-cache.json.
ObjectsOver(ps) ==
  IF ps = {} THEN {EmptyMap}
  ELSE IF ps = {"a.ts"}
    THEN {[k \in {getCacheKey("a.ts", LoadTemplate)} |-> e] : e \in EntryShapes("a.ts")}
  ELSE IF ps = {"b.ts"}
    THEN {[k \in {getCacheKey("b.ts", LoadTemplate)} |-> e] : e \in EntryShapes("b.ts")}
  ELSE {[k \in {getCacheKey("a.ts", LoadTemplate), getCacheKey("b.ts", LoadTemplate)} |->
           IF k = getCacheKey("a.ts", LoadTemplate) THEN ea ELSE eb]
          : ea \in EntryShapes("a.ts"), eb \in EntryShapes("b.ts")}

\* review-cache.json: missing, unreadable, not JSON, the JSON null, or an object.
PersistedFiles ==
  {[kind |-> k, data |-> EmptyMap] : k \in {"missing", "unreadable", "invalid", "null"}}
  \cup {[kind |-> "object", data |-> d] : d \in UNION {ObjectsOver(ps) : ps \in SUBSET LoadPaths}}

\* loadCache on the file: nothing to load without a file; readFileSync,
\* JSON.parse and Object.entries(null) throw into the catch.
loadCacheFile(file) ==
  IF file.kind = "object" THEN loadCache(file.data) ELSE EmptyMap

\* new CacheManager(projectRoot)
NewCacheManager ==
  /\ lastCache.op = "none"
  /\ cache' = loadCacheFile(cacheDisk)
  /\ lastCache' = [op |-> "loadCache"]
  /\ UNCHANGED <<now, fs, cacheDisk, nonCacheVars>>

InitLoad ==
  /\ now = 0
  /\ fs = InitFiles
  /\ cache = EmptyMap
  /\ cacheDisk \in PersistedFiles
  /\ lastCache = NoCacheCall
  /\ RouterIdle /\ SessionIdle /\ BatchIdle /\ RateIdle

NextLoad ==
  \/ NewCacheManager
  \/ \E p \in LoadPaths : lastCache.op # "none" /\ GetCachedCall(p, LoadTemplate)
  \/ \E p \in LoadPaths, h \in BOOLEAN :
       lastCache.op # "none" /\ CacheResultCall(p, LoadTemplate, h)

SpecLoad == InitLoad /\ [][NextLoad]_vars

\* The persisted record is not what saveCache writes: there is no readable
\* JSON object, or one of its entries is malformed.
Corrupt(file) ==
  \/ file.kind # "object"
  \/ \E k \in DOMAIN file.data :
       \A p \in LoadPaths : file.data[k] # SavedEntry(p)

\* C20: loading a missing, unreadable, invalid or malformed persisted record
\* leaves the CacheManager with an empty cache, no entry of the record
\* loaded, and every lookup of what the record held is a miss.
C20_CorruptCacheLoadsEmpty ==
  Corrupt(cacheDisk) =>
    /\ lastCache.op = "loadCache" => cache = EmptyMap
    /\ lastCache.op = "getCached" => ~lastCache.hit

\* The files of the current reviewMultipleFiles call that have yielded a
\* result: the cache hits and the files whose callback has its result.
Yielded ==
  {bFinal[i] : i \in {j \in DOMAIN bFinal : bFinal[j] \notin SeqToSet(bQueue)}}
    \cup {bQueue[k] : k \in {j \in DOMAIN bSt : bSt[j].st = "ok"}}

InReview == bT > 0 /\ bPc \in {"wave", "pause", "main", "done"}

\* C21: during reviewMultipleFiles the progress callback has been invoked
\* exactly once for every file that has yielded a result, cache hit or fresh
\* (fabricated results of failed files included), every call carries the
\* number of input files as its total, and the indices of the calls are
\* pairwise distinct and lie in 1..total.
C21_ProgressOncePerResult ==
  InReview =>
    /\ bProgress.n = Cardinality(Yielded)
    /\ {c.filePath : c \in bProgress.calls} = Yielded
    /\ \A c \in bProgress.calls :
         /\ c.total = Len(bFinal)
         /\ c.current \in 1..Len(bFinal)
    /\ \A c, d \in bProgress.calls : c.current = d.current => c = d
    /\ Cardinality(bProgress.calls) = bProgress.n

\* A multi-model run of two waves, one file of which failed, has returned.
C21_Witness ==
  /\ bMode = "multiModel"
  /\ bPc \in {"main", "done"}
  /\ bT > 0
  /\ bFailed # {}
  /\ Len(bQueue) > bConc
  /\ bProgress.n = Len(bFinal)

\* The templates reviewMultipleFiles is called with ("all" is expanded by main).
SelectTemplates == {"quality", "security", "performance", "typescript", "combined"}

\* geminiConfig, the ModelConfig main builds for --model gemini-*: it has
\* neither fallbackModels nor templateMappings.
geminiConfig(targetModel) ==
  [primaryModel |-> targetModel, fallbackModels |-> <<>>, hasTemplateMappings |-> FALSE]

\* main without --auto-fallback: the MultiModelReviewer of multi-model mode
\* (optionally with --model) and the one of the single Gemini model mode.
InitSelect ==
  /\ now = 0
  /\ CacheIdle
  /\ SessionIdle
  /\ BatchIdle
  /\ RateIdle
  /\ \E useMultiModel \in BOOLEAN, specificModel \in {""} \cup ModelKeys,
        creds \in Credentials :
       LET needsClaude == specificModel = "" \/ IsClaude(specificModel)
           needsGemini == specificModel = "" \/ IsGemini(specificModel)
           hasClaudeCode == needsClaude /\ creds.claudeCode
           hasApiKey == needsClaude /\ creds.apiKey
           authenticated == /\ needsClaude => (hasClaudeCode \/ hasApiKey)
                            /\ needsGemini => creds.geminiKey
       IN  /\ useMultiModel \/ IsGemini(specificModel)
           /\ rAvail = IF useMultiModel
                         THEN [claude |-> hasClaudeCode \/ creds.apiKey,
                               gemini |-> creds.geminiKey,
                               useClaudeCode |-> hasClaudeCode]
                         ELSE [claude |-> FALSE, gemini |-> creds.geminiKey,
                               useClaudeCode |-> FALSE]
           /\ rCfg = IF useMultiModel
                       THEN [multiModelConfig EXCEPT
                               !.primaryModel = IF specificModel # "" THEN specificModel ELSE @]
                       ELSE geminiConfig(specificModel)
           /\ rPc = IF authenticated THEN "idle" ELSE "exited"
  /\ rChain = <<>>
  /\ rReq \in [template : SelectTemplates, code : CodeSamples]
  /\ rFails = {}
  /\ rCur = ""
  /\ rIdx = 0
  /\ rCalls = <<>>
  /\ rRet = ""
  /\ cmp = NoCompare

\* MultiModelReviewer.reviewMultipleFiles asks the provider for the
\* template's model (smart mode).
SelectModel ==
  /\ rPc = "idle"
  /\ LET chosen == getOptimalModel(rCfg, rAvail, rReq.template)
     IN  /\ rPc' = IF chosen.threw # "" THEN "threw" ELSE "returned"
         /\ rRet' = IF chosen.threw # "" THEN chosen.threw ELSE chosen.model
  /\ UNCHANGED <<rChain, rCfg, rAvail, rReq, rFails, rCur, rIdx, rCalls, cmp, nonRouterVars>>

NextSelect == SelectModel

SpecSelect == InitSelect /\ [][NextSelect]_vars

\* The configuration's category-to-model preference table.
PreferenceTable(cfg, template) ==
  IF cfg.hasTemplateMappings THEN templateMappings(template) ELSE ""

\* C22: without an explicit fallback chain the selection returns the
\* template's model of the preference table when it is available, otherwise
\* the primary model when it is available, otherwise the first available
\* model, and throws only when no model is available.
C22_SelectionOrder ==
  rPc \in {"returned", "threw"} =>
    LET available == getAvailableModels(rAvail)
        preferred == PreferenceTable(rCfg, rReq.template)
    IN  IF preferred # "" /\ Contains(available, preferred)
          THEN rPc = "returned" /\ rRet = preferred
        ELSE IF Contains(available, rCfg.primaryModel)
          THEN rPc = "returned" /\ rRet = rCfg.primaryModel
        ELSE IF Len(available) > 0
          THEN rPc = "returned" /\ rRet = available[1]
        ELSE rPc = "threw"

\* C23: during a run of CodeReviewer.reviewMultipleFiles with the cache
\* enabled every reviewed miss is in the in-memory cache once its callback
\* has its result, review-cache.json is not written while waves are
\* outstanding (nor when the run is cut short), and when the run has
\* returned it has been written exactly once, with the cache as it is then.
C23_StoredThenSavedOnce ==
  (bMode \in CodeReviewerModes /\ bT > 0) =>
    LET template == getTemplates(bArg)[bT]
    IN  /\ \A k \in DOMAIN bSt :
             bSt[k].st = "ok" =>
               /\ HasEntry(cache, getCacheKey(bQueue[k], template))
               /\ cache[getCacheKey(bQueue[k], template)].result = bSt[k].result
               /\ cache[getCacheKey(bQueue[k], template)].filePath = bQueue[k]
        /\ bPc \in {"wave", "pause", "exited"} => bSaves = 0
        /\ bPc \in {"main", "done"} => bSaves = 1 /\ cacheDisk = saveCache(cache)

\* A run of more than one wave with an API key has returned.
C23_Witness ==
  /\ bMode = "apiKey"
  /\ bPc \in {"main", "done"}
  /\ bT > 0
  /\ Len(bQueue) > bConc
  /\ \A k \in DOMAIN bSt : bSt[k].st = "ok"
  /\ bSaves = 1

\* The fields of a CacheEntry besides its result.
EntryFields == {"fileHash", "filePath", "template", "cachedAt", "fileSize", "lastModified"}

\* C24: after finalize() a newly constructed CacheManager, which loads
\* review-cache.json, holds exactly the keys of the cache that was saved and
\* under each key the same fileHash, filePath, template, cachedAt, fileSize
\* and lastModified and the same result, its timestamp a Date of the same
\* instant.
C24_PersistenceRoundTrip ==
  (bMode \in CodeReviewerModes /\ bT > 0 /\ bPc \in {"main", "done"}) =>
    LET loaded == loadCache(cacheDisk)
    IN  /\ DOMAIN loaded = DOMAIN cache
        /\ \A key \in DOMAIN cache :
             /\ \A f \in EntryFields : loaded[key][f] = cache[key][f]
             /\ loaded[key].result = cache[key].result
             /\ loaded[key].result.timestamp.type = "Date"

\* A second invocation has saved a cache of several entries.
C24_Witness ==
  /\ bMode \in CodeReviewerModes
  /\ bPc = "done"
  /\ bSaves = 1
  /\ now = 1
  /\ Cardinality(DOMAIN cache) >= 2
  /\ \E key \in DOMAIN cache : cache[key].result.timestamp.ms = 1

(***************************************************************************)
(* SpecCleanup: a CacheManager over several days; a tick of `now` is a day *)
(***************************************************************************)
MaxAge == 9

\* 7 * 24 * 60 * 60 * 1000 ms, in days.
SevenDays == 7

\* A cleanup that removes nothing.
cleanup_KeepsAll(c, t) == c

\* CacheManager.cleanup at time t: the Map without the entries whose
\* cachedAt is before the cutoff date (deleting inside Map.forEach skips
\* no entry).
cleanup(c, t) ==
  LET cutoffDate == t - SevenDays
  IN  [key \in {k \in DOMAIN c : ~(c[k].cachedAt < cutoffDate)} |-> c[key]]

InitCleanup == now = 0 /\ CacheIdle /\ RouterIdle /\ SessionIdle /\ BatchIdle /\ RateIdle

\* A day passes.
DayPasses ==
  /\ now < MaxAge
  /\ now' = now + 1
  /\ UNCHANGED <<cacheVars, nonCacheVars>>

\* cacheManager.cleanup(): stale entries are deleted, then saveCache().
CleanupCall ==
  /\ cache' = cleanup(cache, now)
  /\ cacheDisk' = saveCache(cleanup(cache, now))
  /\ lastCache' = [op |-> "cleanup", before |-> cache, at |-> now]
  /\ UNCHANGED <<now, fs, nonCacheVars>>

NextCleanup ==
  \/ DayPasses
  \/ \E p \in CachePaths, t \in CacheTemplates : CacheResultCall(p, t, FALSE)
  \/ CleanupCall

SpecCleanup == InitCleanup /\ [][NextCleanup]_vars

\* The age of an entry at time t.
Age(entry, t) == t - entry.cachedAt

\* C25: after cleanup() no entry whose cachedAt is more than 7 days old
\* remains, every entry cached within the last 7 days is retained
\* unchanged, nothing else is in the cache, and review-cache.json holds the
\* resulting cache.
C25_CleanupEvictsStale ==
  lastCache.op = "cleanup" =>
    /\ \A key \in DOMAIN cache : Age(cache[key], lastCache.at) <= SevenDays
    /\ \A key \in DOMAIN lastCache.before :
         Age(lastCache.before[key], lastCache.at) <= SevenDays
           => /\ HasEntry(cache, key)
              /\ cache[key] = lastCache.before[key]
    /\ DOMAIN cache \subseteq DOMAIN lastCache.before
    /\ cacheDisk = saveCache(cache)
    /\ loadCache(cacheDisk) = cache

\* A cleanup removed an entry older than 7 days and kept one that is
\* exactly 7 days old.
C25_Witness ==
  /\ lastCache.op = "cleanup"
  /\ \E key \in DOMAIN lastCache.before :
       Age(lastCache.before[key], lastCache.at) > SevenDays /\ ~HasEntry(cache, key)
  /\ \E key \in DOMAIN cache : Age(cache[key], lastCache.at) = SevenDays

(***************************************************************************)
(* SpecEstimate: TokenEstimator on a range of requests.                    *)
(***************************************************************************)
\* Requests from a few lines to a file near the 50 KB limit of the scanner.
EstimateSamples ==
  CodeSamples \cup
  { [length |-> len, lines |-> lines, functions |-> lines \div 20,
     imports |-> 2, complexPatterns |-> cyclomatic, cyclomatic |-> cyclomatic] :
      len \in {200, 2000, 6000, 16000, 48000, 4400000, 8400000},
      lines \in {10, 60, 250}, cyclomatic \in {2, 8, 25} }

\* Object.keys(MODEL_LIMITS)
ModelKeyOrder == <<"claude-sonnet", "claude-haiku", "gemini-pro", "gemini-flash">>

\* A model key MODEL_LIMITS has no entry for.
UnknownModel == "gpt-4"

\* A check that suggests no alternative.
fitsWithinLimitsResult_NoAlternatives(estimate, modelKey) ==
  [fits |-> fitsWithinLimits(estimate, modelKey), issues |-> 0, alternatives |-> <<>>]

\* TokenEstimator.fitsWithinLimits(estimate, modelKey): fits, the number of
\* issues and the alternatives, in the order of Object.keys(MODEL_LIMITS).
fitsWithinLimitsResult(estimate, modelKey) ==
  IF modelKey \notin DOMAIN MODEL_LIMITS
    THEN [fits |-> FALSE, issues |-> 1, alternatives |-> <<>>]
    ELSE LET limits == MODEL_LIMITS[modelKey]
             issues == (IF estimate.inputTokens > limits.maxInputTokens THEN 1 ELSE 0)
                       + (IF estimate.outputTokens > limits.maxOutputTokens THEN 1 ELSE 0)
             fitting == {key \in DOMAIN MODEL_LIMITS :
                           /\ estimate.inputTokens <= MODEL_LIMITS[key].maxInputTokens
                           /\ estimate.outputTokens <= MODEL_LIMITS[key].maxOutputTokens}
         IN  [fits |-> issues = 0, issues |-> issues,
              alternatives |-> IF issues > 0 THEN FilterSeq(ModelKeyOrder, fitting)
                               ELSE <<>>]

InitEstimate ==
  /\ now = 0
  /\ CacheIdle
  /\ SessionIdle
  /\ BatchIdle
  /\ RateIdle
  /\ rChain = <<>>
  /\ rCfg = [primaryModel |-> "", fallbackModels |-> <<>>, hasTemplateMappings |-> FALSE]
  /\ rAvail = [claude |-> FALSE, gemini |-> FALSE]
  /\ rReq \in [template : SelectTemplates, code : EstimateSamples]
  /\ rFails = {}
  /\ rPc = "idle"
  /\ rCur = ""
  /\ rIdx = 0
  /\ rCalls = <<>>
  /\ rRet = ""
  /\ cmp = NoCompare

\* TokenEstimator.estimateTokens(code, systemPrompt, filename, template)
EstimateCall ==
  /\ rPc = "idle"
  /\ rPc' = "estimated"
  /\ rRet' = RequestEstimate(rReq)
  /\ UNCHANGED <<rChain, rCfg, rAvail, rReq, rFails, rCur, rIdx, rCalls, cmp, nonRouterVars>>

\* TokenEstimator.fitsWithinLimits(estimate, modelKey) on the estimate.
FitsCall(modelKey) ==
  /\ rPc = "estimated"
  /\ rPc' = "checked"
  /\ rRet' = [estimate |-> rRet, modelKey |-> modelKey,
              check |-> fitsWithinLimitsResult(rRet, modelKey)]
  /\ UNCHANGED <<rChain, rCfg, rAvail, rReq, rFails, rCur, rIdx, rCalls, cmp, nonRouterVars>>

NextEstimate ==
  \/ EstimateCall
  \/ \E modelKey \in ModelKeys \cup {UnknownModel} : FitsCall(modelKey)

SpecEstimate == InitEstimate /\ [][NextEstimate]_vars

\* C26: the recommended model of an estimate follows the decision table:
\* under 1000 total tokens with low complexity gemini-flash; above 10000
\* total tokens gemini-pro; otherwise claude-sonnet for the security
\* template and for high complexity; gemini-flash for every other request.
C26_DecisionTable ==
  rPc = "estimated" =>
    LET verySmall == rRet.totalTokens < 1000 /\ rRet.complexity = "low"
        veryLarge == rRet.totalTokens > 10000
        demanding == rReq.template = "security" \/ rRet.complexity = "high"
    IN  /\ verySmall => rRet.recommendedModel = "gemini-flash"
        /\ veryLarge => rRet.recommendedModel = "gemini-pro"
        /\ (~verySmall /\ ~veryLarge /\ demanding)
             => rRet.recommendedModel = "claude-sonnet"
        /\ (~verySmall /\ ~veryLarge /\ ~demanding)
             => rRet.recommendedModel = "gemini-flash"

\* Whether the ceilings of a model accommodate an estimate.
Accommodates(modelKey, estimate) ==
  /\ estimate.inputTokens <= MODEL_LIMITS[modelKey].maxInputTokens
  /\ estimate.outputTokens <= MODEL_LIMITS[modelKey].maxOutputTokens

\* C27: fitsWithinLimits answers fits = true exactly when the input and the
\* output tokens of the estimate are within the model's ceilings; when it
\* answers fits = false for a known model, alternatives holds exactly the
\* model keys whose ceilings accommodate the estimate; for an unknown model
\* key it answers fits = false without alternatives.
C27_FitsWithinLimits ==
  rPc = "checked" =>
    IF rRet.modelKey \in ModelKeys
      THEN /\ rRet.check.fits <=> Accommodates(rRet.modelKey, rRet.estimate)
           /\ ~rRet.check.fits =>
                /\ SeqToSet(rRet.check.alternatives)
                     = {key \in ModelKeys : Accommodates(key, rRet.estimate)}
                /\ Len(rRet.check.alternatives)
                     = Cardinality(SeqToSet(rRet.check.alternatives))
      ELSE ~rRet.check.fits /\ rRet.check.alternatives = <<>>

\* An estimate above the input ceiling of claude-haiku and of gemini-flash:
\* the only alternative is gemini-pro.
C27_Witness ==
  /\ rPc = "checked"
  /\ rRet.modelKey = "claude-haiku"
  /\ ~rRet.check.fits
  /\ rRet.check.alternatives = <<"gemini-pro">>

\* The request times of the tracker that lie in the 60-second window.
WindowTimes == Pick(requestTimes, After(requestTimes, clock - OneMinute), 1)

\* C28: whenever canMakeRequest blocks on the tokens-per-minute ceiling, it
\* reports a wait that is a whole number of seconds, at least one, equal to
\* the time until the oldest request of the 60-second window leaves it, and
\* a reason that names the token limit; also when the window is empty.
C28_TokenCeilingWait ==
  (/\ tLast.op = "canMakeRequest"
   /\ Cardinality(After(requestTimes, clock - OneMinute)) < requestsPerMinute
   /\ ~tLast.allowed) =>
    /\ tLast.reason = "tokens per minute"
    /\ tLast.hasWait
    /\ tLast.waitTime >= 1
    /\ tLast.waitTime = CeilDiv(SeqMin(WindowTimes) + OneMinute - clock, 1000)

(***************************************************************************)
(* SpecDaily: the request log of one model over a day.                     *)
(***************************************************************************)
DailyModel == "gemini-pro"
DailyTokens == 10
DailyInstants == {0, 60000, 86400000}

\* Records are made until the log is one past the model's requestsPerDay.
MaxDailyRecords == 51

InitDaily ==
  now = 0 /\ CacheIdle /\ RouterIdle /\ SessionIdle /\ BatchIdle /\ RateIdle

\* Time passes.
DailyAdvance(t) ==
  /\ t > clock
  /\ clock' = t
  /\ tLast' = NoRateCheck
  /\ UNCHANGED <<now, requestTimes, tokenUsageMinute, requestHistory, tokenHistory,
                 cacheVars, routerVars, sessionVars, batchVars>>

\* reviewWithOptimalModel records a finished call of the model:
\* tokenTracker.addTokens and statusChecker.recordRequest.
DailyRecord ==
  /\ Len(HistoryOf(requestHistory, DailyModel)) < MaxDailyRecords
  /\ LET recorded == recordUsage(requestTimes, tokenUsageMinute, clock, DailyTokens)
         requests == Append(HistoryOf(requestHistory, DailyModel), clock)
         tokens == Append(HistoryOf(tokenHistory, DailyModel),
                          [timestamp |-> clock, tokens |-> DailyTokens])
     IN  /\ requestTimes' = recorded.requestTimes
         /\ tokenUsageMinute' = recorded.tokenUsageMinute
         /\ requestHistory' =
              MapSet(requestHistory, DailyModel, cleanOldEntries(requests, requests, clock))
         /\ tokenHistory' =
              MapSet(tokenHistory, DailyModel,
                     cleanOldEntries(tokens, [i \in DOMAIN tokens |-> tokens[i].timestamp],
                                     clock))
  /\ tLast' = NoRateCheck
  /\ UNCHANGED <<now, clock, cacheVars, routerVars, sessionVars, batchVars>>

\* statusChecker.getModelStatus(modelKey)
DailyStatus ==
  /\ tLast' = [op |-> "getModelStatus", estimatedTokens |-> 0]
              @@ determineStatus(DailyModel, HistoryOf(requestHistory, DailyModel),
                                 HistoryOf(tokenHistory, DailyModel), clock)
  /\ UNCHANGED <<now, clock, requestTimes, tokenUsageMinute, requestHistory,
                 tokenHistory, cacheVars, routerVars, sessionVars, batchVars>>

NextDaily ==
  \/ \E t \in DailyInstants : DailyAdvance(t)
  \/ DailyRecord
  \/ DailyStatus

SpecDaily == InitDaily /\ [][NextDaily]_vars

\* The requests recorded for the model in the trailing 24 hours.
RequestsToday ==
  Cardinality(After(HistoryOf(requestHistory, DailyModel), clock - OneDay))

\* C29: when the requests recorded for the model in the trailing 24 hours
\* have reached the model's requestsPerDay, the status check reports the
\* model as rate limited, without a number of seconds to wait.
C29_DailyCeiling ==
  (/\ tLast.op = "getModelStatus"
   /\ RequestsToday >= MODEL_LIMITS[DailyModel].rateLimit.requestsPerDay) =>
    /\ ~tLast.allowed
    /\ ~tLast.hasWait

(***************************************************************************)
(* SpecGate: CodeReviewer.reviewWithAPI, one request after the other.      *)
(***************************************************************************)
InitGate ==
  now = 0 /\ CacheIdle /\ RouterIdle /\ SessionIdle /\ BatchIdle /\ RateIdle

\* Time passes between two reviews.
GateAdvance(t) ==
  /\ tLast.op = "none"
  /\ t > clock
  /\ clock' = t
  /\ UNCHANGED <<now, tLast, requestTimes, tokenUsageMinute, requestHistory, tokenHistory,
                 cacheVars, routerVars, sessionVars, batchVars>>

\* reviewWithAPI up to its first await: the rate check; when it answers not
\* allowed with a truthy waitTime the caller awaits waitForRateLimit,
\* otherwise it goes on to messages.create.
ReviewWithAPI(estimatedTokens) ==
  /\ tLast.op = "none"
  /\ Len(HistoryOf(requestHistory, RateModel)) < MaxRecords
  /\ LET rateLimitCheck ==
           canMakeRequest(requestTimes, tokenUsageMinute, clock, estimatedTokens)
         waits == /\ ~rateLimitCheck.allowed
                  /\ rateLimitCheck.hasWait
                  /\ rateLimitCheck.waitTime # 0
     IN  tLast' = [op |-> IF waits THEN "waiting" ELSE "requested",
                   estimatedTokens |-> estimatedTokens, slept |-> 0,
                   model |-> IF waits THEN "" ELSE RateModel]
                  @@ rateLimitCheck
  /\ UNCHANGED <<now, clock, requestTimes, tokenUsageMinute, requestHistory,
                 tokenHistory, cacheVars, routerVars, sessionVars, batchVars>>

\* waitForRateLimit(waitTime) has counted down, one second per round; then
\* messages.create is called.
WaitForRateLimit ==
  /\ tLast.op = "waiting"
  /\ clock' = clock + tLast.waitTime * 1000
  /\ tLast' = [tLast EXCEPT !.op = "requested", !.slept = tLast.waitTime,
                            !.model = RateModel]
  /\ UNCHANGED <<now, requestTimes, tokenUsageMinute, requestHistory, tokenHistory,
                 cacheVars, routerVars, sessionVars, batchVars>>

\* The response arrives: recordUsage and recordRequest('claude-sonnet').
ResponseArrives(totalTokens) ==
  /\ tLast.op = "requested"
  /\ LET recorded == recordUsage(requestTimes, tokenUsageMinute, clock, totalTokens)
         requests == Append(HistoryOf(requestHistory, RateModel), clock)
         tokens == Append(HistoryOf(tokenHistory, RateModel),
                          [timestamp |-> clock, tokens |-> totalTokens])
     IN  /\ requestTimes' = recorded.requestTimes
         /\ tokenUsageMinute' = recorded.tokenUsageMinute
         /\ requestHistory' =
              MapSet(requestHistory, RateModel, cleanOldEntries(requests, requests, clock))
         /\ tokenHistory' =
              MapSet(tokenHistory, RateModel,
                     cleanOldEntries(tokens, [i \in DOMAIN tokens |-> tokens[i].timestamp],
                                     clock))
  /\ tLast' = NoRateCheck
  /\ UNCHANGED <<now, clock, cacheVars, routerVars, sessionVars, batchVars>>

\* The request fails: the ErrorHandler ends the process.
RequestFails ==
  /\ tLast.op = "requested"
  /\ tLast' = [tLast EXCEPT !.op = "exited"]
  /\ UNCHANGED <<now, clock, requestTimes, tokenUsageMinute, requestHistory,
                 tokenHistory, cacheVars, routerVars, sessionVars, batchVars>>

NextGate ==
  \/ \E t \in RateInstants : GateAdvance(t)
  \/ \E e \in RateEstimates : ReviewWithAPI(e)
  \/ WaitForRateLimit
  \/ \E n \in RateTokens : ResponseArrives(n)
  \/ RequestFails

SpecGate == InitGate /\ [][NextGate]_vars

\* C30 (single-model mode): whenever the rate gate answered not allowed,
\* the request that follows was issued to the same model after the caller
\* slept for the wait the gate reported.
C30_GateBlocksThenSleeps ==
  (tLast.op = "requested" /\ ~tLast.allowed) =>
    /\ tLast.hasWait
    /\ tLast.slept = tLast.waitTime
    /\ tLast.slept >= 1
    /\ tLast.model = RateModel

\* The token counts of the recorded calls that lie in the 60-second window,
\* in the order they were recorded.
WindowTokenLog == Pick([i \in DOMAIN Recorded |-> Recorded[i].tokens], InWindow, 1)

\* A state right after a prune pass: the call recorded last was recorded now.
JustPruned == requestTimes # <<>> /\ requestTimes[Len(requestTimes)] = clock

\* The sum canMakeRequest takes as the tokens of the last minute.
recentTokens ==
  SeqSum(Pick(tokenUsageMinute,
              After(requestTimes, clock - OneMinute) \cap DOMAIN tokenUsageMinute, 1))

\* C31: after a prune pass TokenTracker's request times and token log hold
\* only the entries of the trailing 60 seconds, ModelStatusChecker's logs
\* only entries of the trailing 24 hours, and the token count of the minute
\* includes no call older than the window.
C31_LogsWithinWindows ==
  JustPruned =>
    /\ \A i \in DOMAIN requestTimes : requestTimes[i] > clock - OneMinute
    /\ tokenUsageMinute = WindowTokenLog
    /\ \A i \in DOMAIN HistoryOf(requestHistory, RateModel) :
         HistoryOf(requestHistory, RateModel)[i] > clock - OneDay
    /\ \A i \in DOMAIN Recorded : Recorded[i].timestamp > clock - OneDay
    /\ recentTokens <= WindowTokens

\* C33: after any sequence of recordUsage calls requestTimes and
\* tokenUsageMinute have the same length, the i-th token count is the one
\* recorded together with the i-th request time, and the tokens-per-minute
\* sum of canMakeRequest is the total of the calls of the trailing 60 seconds.
C33_ParallelArraysAligned ==
  LET offset == Len(Recorded) - Len(requestTimes)
  IN  /\ Len(tokenUsageMinute) = Len(requestTimes)
      /\ offset >= 0
      /\ \A i \in DOMAIN requestTimes :
           /\ Recorded[offset + i].timestamp = requestTimes[i]
           /\ Recorded[offset + i].tokens = tokenUsageMinute[i]
      /\ recentTokens = WindowTokens
\* The misses of the last separateFiles whose file had an entry for the
\* template in the Map when separateFiles was called.
MissesWithEntry ==
  {i \in DOMAIN lastCache.uncachedFiles :
     HasEntry(lastCache.before,
              getCacheKey(lastCache.uncachedFiles[i].relativePath, lastCache.template))}

\* C32: the statistics of separateFiles: totalFiles is the number of input
\* files, cachedFiles the number of hits, newFiles + changedFiles the number
\* of misses, changedFiles the number of misses that had a stored entry when
\* separateFiles was called, newFiles the number of misses that had none.
C32_SeparateFilesStats ==
  lastCache.op = "separateFiles" =>
    /\ lastCache.stats.totalFiles = Len(lastCache.files)
    /\ lastCache.stats.cachedFiles = Len(lastCache.cachedFiles)
    /\ lastCache.stats.newFiles + lastCache.stats.changedFiles
         = Len(lastCache.uncachedFiles)
    /\ lastCache.stats.changedFiles = Cardinality(MissesWithEntry)
    /\ lastCache.stats.newFiles
         = Len(lastCache.uncachedFiles) - Cardinality(MissesWithEntry)

(***************************************************************************)
(* SpecWave: the waves of reviewMultipleFiles with an API key.  The        *)
(* members of a wave run reviewWithAPI concurrently against one            *)
(* TokenTracker.  tLast holds the members of the running wave and the      *)
(* times at which messages.create was called so far.                       *)
(***************************************************************************)
NoWave == [op |-> "none", members |-> <<>>, issued |-> <<>>]

InitWave ==
  /\ now = 0 /\ CacheIdle /\ RouterIdle /\ SessionIdle /\ BatchIdle
  /\ clock = 0
  /\ requestTimes = <<>>
  /\ tokenUsageMinute = <<>>
  /\ requestHistory = EmptyMap
  /\ tokenHistory = EmptyMap
  /\ tLast = NoWave

\* Time passes: between two waves (the 500 ms pause and the time the rest of
\* the loop takes) or while requests and sleeps are outstanding.
WaveAdvance(t) ==
  /\ tLast.op # "exited"
  /\ t > clock
  /\ clock' = t
  /\ UNCHANGED <<now, tLast, requestTimes, tokenUsageMinute, requestHistory, tokenHistory,
                 cacheVars, routerVars, sessionVars, batchVars>>

\* Member k of a wave after the synchronous part of reviewWithAPI: the rate
\* check against the log as it is, then either the sleep of waitForRateLimit
\* or messages.create.
WaveMember(estimatedTokens) ==
  LET rateLimitCheck ==
        canMakeRequest(requestTimes, tokenUsageMinute, clock, estimatedTokens)
      waits == /\ ~rateLimitCheck.allowed
               /\ rateLimitCheck.hasWait
               /\ rateLimitCheck.waitTime # 0
  IN  [st |-> IF waits THEN "waiting" ELSE "requested",
       due |-> IF waits THEN clock + rateLimitCheck.waitTime * 1000 ELSE clock]

\* The times of the members of ms that called messages.create at once.
RECURSIVE IssuedAtOnce(_)
IssuedAtOnce(ms) ==
  IF ms = <<>> THEN <<>>
  ELSE (IF Head(ms).st = "requested" THEN <<Head(ms).due>> ELSE <<>>)
       \o IssuedAtOnce(Tail(ms))

\* batch.map(async file => ... reviewFile(file, template)): each callback runs
\* to its first await before the next one starts, so every member of the
\* wave has passed the rate check before any response is recorded.
WaveStarts(estimates) ==
  /\ tLast.op = "none"
  /\ Len(tLast.issued) + Len(estimates) <= MaxRecords
  /\ LET members == [k \in DOMAIN estimates |-> WaveMember(estimates[k])]
     IN  tLast' = [op |-> "wave", members |-> members,
                   issued |-> tLast.issued \o IssuedAtOnce(members)]
  /\ UNCHANGED <<now, clock, requestTimes, tokenUsageMinute, requestHistory,
                 tokenHistory, cacheVars, routerVars, sessionVars, batchVars>>

\* The countdown of waitForRateLimit of member k is over: messages.create is
\* called, without a second rate check.
WaveMemberWakes(k) ==
  /\ tLast.op = "wave"
  /\ k \in DOMAIN tLast.members
  /\ tLast.members[k].st = "waiting"
  /\ clock >= tLast.members[k].due
  /\ tLast' = [tLast EXCEPT !.members[k].st = "requested",
                            !.issued = Append(@, clock)]
  /\ UNCHANGED <<now, clock, requestTimes, tokenUsageMinute, requestHistory,
                 tokenHistory, cacheVars, routerVars, sessionVars, batchVars>>

\* The response of member k arrives: recordUsage and recordRequest.
WaveResponse(k, totalTokens) ==
  /\ tLast.op = "wave"
  /\ k \in DOMAIN tLast.members
  /\ tLast.members[k].st = "requested"
  /\ LET recorded == recordUsage(requestTimes, tokenUsageMinute, clock, totalTokens)
         requests == Append(HistoryOf(requestHistory, RateModel), clock)
         tokens == Append(HistoryOf(tokenHistory, RateModel),
                          [timestamp |-> clock, tokens |-> totalTokens])
     IN  /\ requestTimes' = recorded.requestTimes
         /\ tokenUsageMinute' = recorded.tokenUsageMinute
         /\ requestHistory' =
              MapSet(requestHistory, RateModel, cleanOldEntries(requests, requests, clock))
         /\ tokenHistory' =
              MapSet(tokenHistory, RateModel,
                     cleanOldEntries(tokens, [i \in DOMAIN tokens |-> tokens[i].timestamp],
                                     clock))
  /\ tLast' = [tLast EXCEPT !.members[k].st = "done"]
  /\ UNCHANGED <<now, clock, cacheVars, routerVars, sessionVars, batchVars>>

\* The request of member k fails: the ErrorHandler ends the process.
WaveRequestFails(k) ==
  /\ tLast.op = "wave"
  /\ k \in DOMAIN tLast.members
  /\ tLast.members[k].st = "requested"
  /\ tLast' = [tLast EXCEPT !.op = "exited"]
  /\ UNCHANGED <<now, clock, requestTimes, tokenUsageMinute, requestHistory,
                 tokenHistory, cacheVars, routerVars, sessionVars, batchVars>>

\* Promise.all(batchPromises) settles: the loop goes on to the next wave.
WaveSettled ==
  /\ tLast.op = "wave"
  /\ \A k \in DOMAIN tLast.members : tLast.members[k].st = "done"
  /\ tLast' = [tLast EXCEPT !.op = "none", !.members = <<>>]
  /\ UNCHANGED <<now, clock, requestTimes, tokenUsageMinute, requestHistory,
                 tokenHistory, cacheVars, routerVars, sessionVars, batchVars>>

WaveEstimates == UNION {[1..n -> RateEstimates] : n \in 1..Concurrency}

\* The instants of SpecWave: the pause after the first wave, and a minute later.
WaveInstants == {500, 60500}

NextWave ==
  \/ \E t \in WaveInstants : WaveAdvance(t)
  \/ \E e \in WaveEstimates : WaveStarts(e)
  \/ \E k \in 1..Concurrency : WaveMemberWakes(k)
  \/ \E k \in 1..Concurrency, n \in RateTokens : WaveResponse(k, n)
  \/ \E k \in 1..Concurrency : WaveRequestFails(k)
  \/ WaveSettled

SpecWave == InitWave /\ [][NextWave]_vars

\* The calls issued within the 60 seconds that end with call j, call j included.
IssuedInWindow(j) ==
  {i \in 1..j : tLast.issued[i] > tLast.issued[j] - OneMinute}

\* C34: in single-model API mode the calls issued within one 60-second
\* window never exceed requestsPerMinute: when a call is issued, the window
\* holds fewer than requestsPerMinute earlier calls, whether recorded
\* already or still in flight.
C34_WaveWithinRequestLimit ==
  \A j \in DOMAIN tLast.issued : Cardinality(IssuedInWindow(j)) <= requestsPerMinute

\* Math.round of the quotient a / b of two naturals, b positive.
MathRound(a, b) == (2 * a + b) \div (2 * b)

\* ReviewSessionManager.getProgress
getProgress(session) ==
  IF session = NoSession
    THEN [completed |-> 0, total |-> 0, percentage |-> 0]
    ELSE [completed |-> session.completedFiles,
          total |-> session.totalFiles,
          percentage |-> IF session.totalFiles > 0
                           THEN MathRound(session.completedFiles * 100, session.totalFiles)
                           ELSE 0]

\* C35: in every session state completedFiles is at most totalFiles and the
\* percentage of getProgress at most 100, for every template choice, 'all'
\* included.
C35_ProgressWithinTotal ==
  /\ sCur.completedFiles <= sCur.totalFiles
  /\ getProgress(sCur).percentage <= 100

\* p is a sub-list of q: the elements of p occur in q, in the same order.
RECURSIVE IsSubList(_, _)
IsSubList(p, q) ==
  IF p = <<>> THEN TRUE
  ELSE IF q = <<>> THEN FALSE
  ELSE IF Head(p) = Head(q) THEN IsSubList(Tail(p), Tail(q))
  ELSE IsSubList(p, Tail(q))

\* The file list every session of SpecMark is started with.
SessionFiles == MarkFiles

\* The file paths that have a result in the session.
CompletedPaths(session) ==
  {session.completedResults[i].filePath : i \in DOMAIN session.completedResults}

\* C36: in a session no file is both pending and completed, pendingFiles is
\* a sub-list of the file list the session was started with, and a file
\* that has no result is still in pendingFiles.
C36_PendingAndCompletedDisjoint ==
  sCur # NoSession =>
    /\ \A i \in DOMAIN sCur.pendingFiles :
         sCur.pendingFiles[i].relativePath \notin CompletedPaths(sCur)
    /\ IsSubList(sCur.pendingFiles, SessionFiles)
    /\ \A j \in DOMAIN SessionFiles :
         SessionFiles[j].relativePath \notin CompletedPaths(sCur)
           => \E i \in DOMAIN sCur.pendingFiles : sCur.pendingFiles[i] = SessionFiles[j]

\* A session resumed by a later invocation, in which markFilesCompleted got
\* the result of b.ts alone: a.ts and c.ts, which have no result, are the
\* pending files.
C36_Witness ==
  /\ sCur # NoSession
  /\ sPrev # NoSession
  /\ sLast.op = "markFilesCompleted"
  /\ CompletedPaths(sCur) = {"b.ts"}
  /\ Len(sCur.pendingFiles) = 2
  /\ sCur.pendingFiles[1].relativePath = "a.ts"
  /\ sCur.pendingFiles[2].relativePath = "c.ts"

(***************************************************************************)
(* SpecWatch: FileWatcher in watch mode.  tLast holds the watcher: its     *)
(* debounceTimers Map (path -> timer id), the timers the runtime holds,    *)
(* the isReviewing flag, the reviewFile calls that are past the flag, and  *)
(* what was observed of it.  clock counts ticks; a timer set at t is due   *)
(* at t + debounceMs.  The paths are files that pass shouldReviewFile.     *)
(***************************************************************************)
WatchPaths == {"a.ts", "b.ts"}

\* this.options.debounceMs, in ticks
debounceMs == 2

MaxWatchTime == 6
MaxTimers == 4

ReviewOutcomes == {"reviewed", "returned", "threw", "exited"}

NoWatchCall == [call |-> "none", path |-> "", at |-> 0]

\* The watcher after startWatching.
NewWatcher ==
  [op |-> "watching", debounceTimers |-> EmptyMap, timers |-> {},
   isReviewing |-> FALSE, running |-> {}, nextTimer |-> 0,
   unreviewed |-> {}, lastEvent |-> EmptyMap, attempts |-> {},
   afterStop |-> {}, last |-> NoWatchCall]

isReviewing == tLast.isReviewing
debounceTimers == tLast.debounceTimers

InitWatch ==
  /\ now = 0 /\ CacheIdle /\ RouterIdle /\ SessionIdle /\ BatchIdle
  /\ clock = 0
  /\ requestTimes = <<>>
  /\ tokenUsageMinute = <<>>
  /\ requestHistory = EmptyMap
  /\ tokenHistory = EmptyMap
  /\ tLast = NewWatcher

WatchUnchanged ==
  UNCHANGED <<now, requestTimes, tokenUsageMinute, requestHistory, tokenHistory,
              cacheVars, routerVars, sessionVars, batchVars>>

\* The timers of ts that clearTimeout(id) leaves.
clearTimeout(ts, id) == {t \in ts : t.id # id}

\* A tick passes.  The event loop is free while a review awaits its
\* response, so a timer fires in the tick in which it is due.
WatchTick ==
  /\ tLast.op = "watching"
  /\ clock < MaxWatchTime
  /\ \A t \in tLast.timers : t.due > clock
  /\ clock' = clock + 1
  /\ tLast' = tLast
  /\ WatchUnchanged

\* fs.watch reports a change of filePath: handleFileChange clears the timer
\* the Map holds for the path and sets a new one.
handleFileChange(filePath) ==
  /\ tLast.op = "watching"
  /\ tLast.nextTimer < MaxTimers
  /\ clock + debounceMs <= MaxWatchTime
  /\ LET id == tLast.nextTimer + 1
         kept == IF filePath \in DOMAIN debounceTimers
                   THEN clearTimeout(tLast.timers, debounceTimers[filePath])
                   ELSE tLast.timers
     IN  tLast' = [tLast EXCEPT
                     !.timers = kept \cup {[id |-> id, path |-> filePath,
                                            due |-> clock + debounceMs]},
                     !.debounceTimers = MapSet(debounceTimers, filePath, id),
                     !.nextTimer = id,
                     !.unreviewed = @ \cup {filePath},
                     !.lastEvent = MapSet(@, filePath, clock),
                     !.last = [call |-> "handleFileChange", path |-> filePath,
                               at |-> clock]]
  /\ clock' = clock
  /\ WatchUnchanged

\* A reviewFile that never skips.
reviewFileSkips_Never(reviewing) == FALSE

\* reviewFile: `if (this.isReviewing) return`
reviewFileSkips(reviewing) == reviewing

\* The debounce timer id fires: its callback calls reviewFile.  While a
\* review is in progress reviewFile returns at once and the callback goes on
\* to delete the path's entry; otherwise isReviewing is set and the review
\* runs up to its first await.
TimerFires(id) ==
  /\ tLast.op = "watching"
  /\ \E x \in tLast.timers : x.id = id /\ x.due <= clock
  /\ LET t == CHOOSE x \in tLast.timers : x.id = id
         attempt == [path |-> t.path, at |-> clock, id |-> t.id,
                     lastEvent |-> tLast.lastEvent[t.path]]
         fired == [tLast EXCEPT !.timers = @ \ {t},
                                !.attempts = @ \cup {attempt}]
     IN  IF reviewFileSkips(isReviewing)
           THEN tLast' = [fired EXCEPT
                            !.debounceTimers = MapDelete(@, t.path),
                            !.last = [call |-> "skipped", path |-> t.path,
                                      at |-> clock]]
           ELSE tLast' = [fired EXCEPT
                            !.isReviewing = TRUE,
                            !.running = @ \cup {[id |-> t.id, path |-> t.path]},
                            !.unreviewed = @ \ {t.path},
                            !.last = [call |-> "started", path |-> t.path,
                                      at |-> clock]]
  /\ clock' = clock
  /\ WatchUnchanged

\* The review started by timer id ends: with its result shown, with an early return (not a
\* file, not accessible, not reviewable), or with an error that the catch
\* logs; the finally block clears isReviewing and the timer callback deletes
\* the path's entry.  A failing review call ends the process.
ReviewEnds(id, outcome) ==
  /\ tLast.op = "watching"
  /\ \E x \in tLast.running : x.id = id
  /\ LET r == CHOOSE x \in tLast.running : x.id = id
     IN  IF outcome = "exited"
           THEN tLast' = [NewWatcher EXCEPT
                            !.op = "exited",
                            !.nextTimer = tLast.nextTimer,
                            !.last = [call |-> "exited", path |-> r.path, at |-> clock]]
           ELSE tLast' = [tLast EXCEPT
                            !.isReviewing = FALSE,
                            !.running = @ \ {r},
                            !.debounceTimers = MapDelete(@, r.path),
                            !.last = [call |-> outcome, path |-> r.path, at |-> clock]]
  /\ clock' = clock
  /\ WatchUnchanged

\* stop(): the timers of the Map are cleared, the Map is emptied.
stop(w) ==
  [w EXCEPT !.timers = {t \in @ : \A q \in DOMAIN w.debounceTimers :
                                    w.debounceTimers[q] # t.id},
            !.debounceTimers = EmptyMap]

\* SIGINT: stop(), then process.exit(0).  afterStop is the set of timers
\* that were pending when stop() returned.
Sigint ==
  /\ tLast.op = "watching"
  /\ tLast' = [NewWatcher EXCEPT !.op = "stopped",
                                 !.nextTimer = tLast.nextTimer,
                                 !.afterStop = stop(tLast).timers,
                                 !.last = [call |-> "stop", path |-> "", at |-> clock]]
  /\ clock' = clock
  /\ WatchUnchanged

NextWatch ==
  \/ WatchTick
  \/ \E p \in WatchPaths : handleFileChange(p)
  \/ \E id \in 1..MaxTimers : TimerFires(id)
  \/ \E id \in 1..MaxTimers, o \in ReviewOutcomes : ReviewEnds(id, o)
  \/ Sigint

SpecWatch == InitWatch /\ [][NextWatch]_vars

\* C37: FileWatcher never runs two reviews at the same time: at most one
\* reviewFile body is between setting and clearing isReviewing, and the flag
\* is false whenever no review is running, whichever way the last one ended.
C37_OneReviewAtATime ==
  /\ Cardinality(tLast.running) <= 1
  /\ isReviewing <=> tLast.running # {}
  /\ tLast.last.call \in {"reviewed", "returned", "threw"} => ~isReviewing

\* A review ended by a throw after a timer that fired during it was skipped.
C37_Witness ==
  /\ tLast.last.call = "threw"
  /\ ~isReviewing
  /\ Cardinality(tLast.attempts) >= 2

\* Watch mode with its scheduling: time passes, a timer that is due fires,
\* and a review that was started comes to an end.
SpecWatchLive ==
  /\ SpecWatch
  /\ WF_vars(WatchTick)
  /\ \A id \in 1..MaxTimers : WF_vars(TimerFires(id))
  /\ \A id \in 1..MaxTimers : WF_vars(\E o \in ReviewOutcomes : ReviewEnds(id, o))

\* C38: every change of a watched file is eventually reviewed (a review of
\* the file starts after the change), also when the change arrives while a
\* review is in progress, with no further change event.
C38_EveryChangeReviewed ==
  \A p \in WatchPaths : (p \in tLast.unreviewed) ~> (p \notin tLast.unreviewed)

\* The timers the runtime holds for the path p.
PendingTimers(p) == {t \in tLast.timers : t.path = p}

\* C39: debounce per path: at most one timer is pending per path; a review
\* attempt for a path happens debounceMs after the last change event of the
\* path, once per burst of events; when stop() has returned no timer is
\* pending.
C39_DebouncePerPath ==
  /\ \A p \in WatchPaths : Cardinality(PendingTimers(p)) <= 1
  /\ \A a \in tLast.attempts : a.at = a.lastEvent + debounceMs
  /\ \A a1, a2 \in tLast.attempts :
       (a1.path = a2.path /\ a1.id # a2.id) => a1.lastEvent # a2.lastEvent
  /\ tLast.afterStop = {}

====
